---- MODULE Spec2Model ----
(***************************************************************************)
(* A model of scyjava's conversion subsystem: the priority-ordered         *)
(* converter registries (java_converters, py_converters), the generic      *)
(* dispatcher _convert, the stock Python-to-Java and Java-to-Python        *)
(* converters, and the lazy population of the registries when the JVM      *)
(* starts.                                                                 *)
(***************************************************************************)
EXTENDS Integers, Sequences, FiniteSets, TLC

(***************************************************************************)
(* State.                                                                  *)
(***************************************************************************)
VARIABLES
    jvm_started,         \* jpype.isJVMStarted()
    _startup_callbacks,  \* _jvm._startup_callbacks
    java_converters,     \* the Python-to-Java registry
    py_converters,       \* the Java-to-Python registry
    pandas,              \* whether pandas imports
    numpy,               \* whether numpy imports (it does where the tests run)
    last,                \* the last conversion call and what it returned
    nAdds,               \* registrations made by the caller so far
    nRemoved,            \* converters the caller has taken out again
    jobj,                \* the Java collection, iterator or array the caller holds
    adapter,             \* what to_python returned for it: an adapter or an ndarray
    nWrites,             \* changes made to that Java object so far
    _shutdown_callbacks, \* _jvm._shutdown_callbacks
    ran,                 \* the callbacks run and the JVM started and shut
                         \* down so far, in the order it happened
    threads              \* where each registering thread is in insort

vars == <<jvm_started, _startup_callbacks, java_converters, py_converters,
          pandas, numpy, last, nAdds, nRemoved, jobj, adapter, nWrites,
          _shutdown_callbacks, ran, threads>>

(***************************************************************************)
(* Priorities.  A priority is a Python float.  Only comparisons and the    *)
(* offsets +1, -1, -2 are ever applied to one, so a priority is kept as    *)
(* <<e, u, h>>, standing for e * 1e300 + u + h / 2 and ordered             *)
(* lexicographically: e carries FIRST and LAST, which lie beyond the       *)
(* checker's integers, and h carries a non-integer priority.               *)
(***************************************************************************)
EXTREMELY_HIGH == 1000000
VERY_HIGH == 10000
HIGH == 100
NORMAL == 0
LOW == -100
VERY_LOW == -10000
EXTREMELY_LOW == -1000000

Pri(n) == <<0, n, 0>>
PriHalf(n) == <<0, n, 1>>
FIRST == <<1, 0, 0>>
LAST == <<-1, 0, 0>>

PriorityLt(p, q) ==
    \/ p[1] < q[1]
    \/ p[1] = q[1] /\ p[2] < q[2]
    \/ p[1] = q[1] /\ p[2] = q[2] /\ p[3] < q[3]

(***************************************************************************)
(* Host integers are unbounded: one is a sign and its decimal digits, most *)
(* significant first, without leading zeros (zero is <<0>>, not negative). *)
(***************************************************************************)
Pos(digs) == [neg |-> FALSE, digs |-> digs]
Neg(digs) == [neg |-> TRUE, digs |-> digs]

RECURSIVE DigitsLt(_, _, _)
DigitsLt(a, b, k) ==
    IF k > Len(a) THEN FALSE
    ELSE IF a[k] # b[k] THEN a[k] < b[k]
    ELSE DigitsLt(a, b, k + 1)

MagLt(a, b) ==
    \/ Len(a) < Len(b)
    \/ Len(a) = Len(b) /\ DigitsLt(a, b, 1)

IntLt(a, b) ==
    IF a.neg /\ ~b.neg THEN TRUE
    ELSE IF ~a.neg /\ b.neg THEN FALSE
    ELSE IF a.neg THEN MagLt(b.digs, a.digs)
    ELSE MagLt(a.digs, b.digs)

IntLe(a, b) == ~IntLt(b, a)

\* MIN_VALUE and MAX_VALUE of the boxed types the range checks consult.
Byte_MIN_VALUE == Neg(<<1, 2, 8>>)
Byte_MAX_VALUE == Pos(<<1, 2, 7>>)
Short_MIN_VALUE == Neg(<<3, 2, 7, 6, 8>>)
Short_MAX_VALUE == Pos(<<3, 2, 7, 6, 7>>)
Integer_MIN_VALUE == Neg(<<2, 1, 4, 7, 4, 8, 3, 6, 4, 8>>)
Integer_MAX_VALUE == Pos(<<2, 1, 4, 7, 4, 8, 3, 6, 4, 7>>)
Long_MIN_VALUE == Neg(<<9, 2, 2, 3, 3, 7, 2, 0, 3, 6, 8, 5, 4, 7, 7, 5, 8, 0, 8>>)
Long_MAX_VALUE == Pos(<<9, 2, 2, 3, 3, 7, 2, 0, 3, 6, 8, 5, 4, 7, 7, 5, 8, 0, 7>>)

\* str(i) of a host integer, and int(s) of a decimal string: a string is the
\* sequence of its characters.
DigitChars == <<"0", "1", "2", "3", "4", "5", "6", "7", "8", "9">>

IntToStr(i) ==
    (IF i.neg THEN <<"-">> ELSE <<>>)
        \o [k \in 1..Len(i.digs) |-> DigitChars[i.digs[k] + 1]]

CharDigit(c) == CHOOSE d \in 0..9 : DigitChars[d + 1] = c

StrToInt(s) ==
    IF s[1] = "-"
    THEN Neg([k \in 1..(Len(s) - 1) |-> CharDigit(s[k + 1])])
    ELSE Pos([k \in 1..Len(s) |-> CharDigit(s[k])])

(***************************************************************************)
(* Values.  A value is [kind, val]: kind is the Python type of a host      *)
(* object or the Java class of a managed one.  A string, host or managed,  *)
(* holds the sequence of its characters.                                   *)
(***************************************************************************)
PyNone == [kind |-> "NoneType", val |-> "None"]
PyStr(s) == [kind |-> "str", val |-> s]
PyBool(b) == [kind |-> "bool", val |-> b]
PyInt(i) == [kind |-> "int", val |-> i]
PyFloat(f) == [kind |-> "float", val |-> f]
PyPath(p) == [kind |-> "PosixPath", val |-> p]
PyDict(items) == [kind |-> "dict", val |-> items]
PySet(items) == [kind |-> "set", val |-> items]
PyList(items) == [kind |-> "list", val |-> items]
PyObject == [kind |-> "object", val |-> "object()"]
\* A pandas.DataFrame holds its columns, each the sequence of its cells.
DataFrame(columns) == [kind |-> "DataFrame", val |-> columns]
\* A DataFrame of a column of ints and a column of strings.
PyDataFrame == DataFrame(<<<<PyInt(Pos(<<1>>))>>, <<PyStr(<<"x">>)>>>>)
J(cls, v) == [kind |-> cls, val |-> v]

\* The Java classes of the model, each with the types it is an instance of.
Supertypes(cls) ==
    CASE cls = "java.util.ArrayList" ->
           {"java.util.List", "java.util.Collection", "java.lang.Iterable"}
      [] cls = "java.util.LinkedHashMap" -> {"java.util.Map"}
      [] cls = "java.util.LinkedHashSet" ->
           {"java.util.Set", "java.util.Collection", "java.lang.Iterable"}
      [] cls = "java.util.ArrayDeque" ->
           {"java.util.Collection", "java.lang.Iterable"}
      [] cls = "java.util.LinkedHashMap$LinkedKeySet" ->
           {"java.util.Set", "java.util.Collection", "java.lang.Iterable"}
      [] cls = "java.util.ArrayList$Itr" -> {"java.util.Iterator"}
      [] cls = "sun.nio.fs.UnixPath" ->
           {"java.nio.file.Path", "java.lang.Iterable"}
      [] cls \in {"org.scijava.table.DefaultGenericTable",
                  "org.scijava.table.DefaultFloatTable",
                  "org.scijava.table.DefaultIntTable",
                  "org.scijava.table.DefaultBoolTable"} ->
           {"org.scijava.table.Table", "java.util.List",
            "java.util.Collection", "java.lang.Iterable"}
      [] OTHER -> {}

JavaClasses ==
    {"java.lang.Object", "java.lang.Boolean", "java.lang.Byte",
     "java.lang.Character", "java.lang.Double", "java.lang.Float",
     "java.lang.Integer", "java.lang.Long", "java.lang.Short",
     "java.lang.String", "java.math.BigInteger", "java.math.BigDecimal",
     "java.util.ArrayList", "java.util.LinkedHashMap",
     "java.util.LinkedHashSet", "java.util.ArrayDeque",
     "sun.nio.fs.UnixPath", "org.scijava.table.DefaultGenericTable",
     "org.scijava.table.DefaultFloatTable",
     "org.scijava.table.DefaultIntTable",
     "org.scijava.table.DefaultBoolTable",
     "java.util.LinkedHashMap$LinkedKeySet", "java.util.ArrayList$Itr"}

\* JPype's primitive wrappers: Java values, but no java.lang.Object.
JPrimitives == {"JBoolean", "JByte", "JChar", "JDouble", "JFloat", "JInt",
                "JLong", "JShort"}

\* A Java array is [kind |-> "JArray", val |-> its elements].
is_jarray(data) == data.kind = "JArray"

isjava(data) == data.kind \in JavaClasses \cup JPrimitives \cup {"JArray"}

jinstance(obj, jtype) ==
    /\ obj.kind \in JavaClasses
    /\ jtype \in {obj.kind, "java.lang.Object"} \cup Supertypes(obj.kind)

\* isinstance(obj, int): bool extends int.
IsInt(obj) == obj.kind \in {"int", "bool"}

\* The integer a host int or bool stands for.
IntOf(obj) ==
    IF obj.kind = "bool"
    THEN (IF obj.val THEN Pos(<<1>>) ELSE Pos(<<0>>))
    ELSE obj.val

\* Host floats are kept by name: two finite ones (inside the range of a Java
\* float, and outside it but inside a double's), the infinities and NaN.
FloatIsInf(f) == f \in {"inf", "-inf"}
FloatIsNan(f) == f = "nan"
WithinFloat(f) == f \in {"5.0"}
WithinDouble(f) == f \in {"5.0", "1e39"}

(***************************************************************************)
(* Hints: the keyword arguments of to_java, a mapping from names to        *)
(* values.  The stock converters read the key "type" only.                 *)
(***************************************************************************)
NoHints == [k \in {} |-> ""]
TypeHint(t) == [k \in {"type"} |-> t]

HasType(hints) == "type" \in DOMAIN hints
TypeIn(hints, names) == HasType(hints) /\ hints["type"] \in names
TypeAbsentOrIn(hints, names) == ~HasType(hints) \/ hints["type"] \in names

ByteNames == {"b", "byte", "Byte"}
ShortNames == {"s", "short", "Short"}
IntegerNames == {"i", "int", "Integer"}
LongNames == {"j", "l", "long", "Long"}
BigIntegerNames == {"bi", "bigint", "BigInteger"}
FloatNames == {"f", "float", "Float"}
DoubleNames == {"d", "double", "Double"}
BigDecimalNames == {"bd", "bigdec", "BigDecimal"}

InRange(obj, lo, hi) == IntLe(lo, IntOf(obj)) /\ IntLe(IntOf(obj), hi)

(***************************************************************************)
(* The predicates of the stock Python-to-Java converters.                  *)
(***************************************************************************)
\* The Byte predicate with the hint test of the Integer predicate.
IsByte_unhinted(obj, hints) ==
    /\ IsInt(obj)
    /\ TypeAbsentOrIn(hints, ByteNames)
    /\ InRange(obj, Byte_MIN_VALUE, Byte_MAX_VALUE)

IsByte(obj, hints) ==
    /\ IsInt(obj)
    /\ TypeIn(hints, ByteNames)
    /\ InRange(obj, Byte_MIN_VALUE, Byte_MAX_VALUE)

IsShort(obj, hints) ==
    /\ IsInt(obj)
    /\ TypeIn(hints, ShortNames)
    /\ InRange(obj, Short_MIN_VALUE, Short_MAX_VALUE)

\* The Integer predicate with its upper bound excluded.
IsInteger_exclusive(obj, hints) ==
    /\ IsInt(obj)
    /\ TypeAbsentOrIn(hints, IntegerNames)
    /\ IntLe(Integer_MIN_VALUE, IntOf(obj))
    /\ IntLt(IntOf(obj), Integer_MAX_VALUE)

IsInteger(obj, hints) ==
    /\ IsInt(obj)
    /\ TypeAbsentOrIn(hints, IntegerNames)
    /\ InRange(obj, Integer_MIN_VALUE, Integer_MAX_VALUE)

IsLong(obj, hints) ==
    /\ IsInt(obj)
    /\ TypeAbsentOrIn(hints, LongNames)
    /\ InRange(obj, Long_MIN_VALUE, Long_MAX_VALUE)

\* The BigInteger predicate without its hint test: any host integer.
IsBigInteger_always(obj, hints) == IsInt(obj)

IsBigInteger(obj, hints) ==
    /\ IsInt(obj)
    /\ TypeAbsentOrIn(hints, BigIntegerNames)

\* An IsFloat that goes by the range comparison alone.
IsFloat_range_only(obj, hints) ==
    /\ obj.kind = "float"
    /\ TypeAbsentOrIn(hints, FloatNames)
    /\ WithinFloat(obj.val)

IsFloat(obj, hints) ==
    /\ obj.kind = "float"
    /\ TypeAbsentOrIn(hints, FloatNames)
    /\ (FloatIsInf(obj.val) \/ FloatIsNan(obj.val) \/ WithinFloat(obj.val))

IsDouble(obj, hints) ==
    /\ obj.kind = "float"
    /\ TypeAbsentOrIn(hints, DoubleNames)
    /\ (FloatIsInf(obj.val) \/ FloatIsNan(obj.val) \/ WithinDouble(obj.val))

IsBigDecimal(obj, hints) ==
    /\ obj.kind = "float"
    /\ TypeAbsentOrIn(hints, BigDecimalNames)

IsMapping(obj) == obj.kind = "dict"
IsSet(obj) == obj.kind = "set"
IsIterable(obj) == obj.kind \in {"str", "dict", "set", "list"}

(***************************************************************************)
(* Converter: the NamedTuple (predicate, converter, priority, name).  The  *)
(* two callables are kept by tag: <<"jinstance", cls>> is the lambda       *)
(* testing jinstance(obj, cls), any other tag names its lambda.            *)
(***************************************************************************)
Converter(predicate, converter, priority, name) ==
    [predicate |-> predicate, converter |-> converter,
     priority |-> priority, name |-> name]

NoConverter == Converter(<<"none">>, <<"none">>, Pri(NORMAL), "<none>")

\* _priority(thing): thing.priority.
_priority(thing) == thing.priority

\* The comparison the other way round: self.priority > _priority(other).
Converter_gt(self, other) == PriorityLt(_priority(other), self.priority)

\* Converter.__lt__: self.priority < _priority(other).
Converter_lt(self, other) == PriorityLt(self.priority, _priority(other))

\* _has_kwargs(f): whether callable f declares **hints.
_has_kwargs(f) ==
    f[1] \in {"IsByte", "IsShort", "IsInteger", "IsLong", "IsBigInteger",
              "IsFloat", "IsDouble", "IsBigDecimal"}

(***************************************************************************)
(* Results of a call: st is "ok" with the value returned in val, or the    *)
(* exception raised, with the exception object in val.  rule is the        *)
(* converter _convert selected for the call (NoConverter: none).           *)
(***************************************************************************)
Ok(v) == [st |-> "ok", val |-> v, rule |-> NoConverter]
Raise(exc, what) ==
    [st |-> exc, val |-> [kind |-> exc, val |-> what], rule |-> NoConverter]

\* _raise_type_exception(obj)
_raise_type_exception(obj) == Raise("TypeError", obj.kind)

(***************************************************************************)
(* _stock_java_converters(): the Python-to-Java converters, in the order   *)
(* the list is written.                                                    *)
(***************************************************************************)
JOther ==
    Converter(<<"True">>, <<"_raise_type_exception">>,
              Pri(EXTREMELY_LOW - 1), "Other (Exceptional) converter")
JNone ==
    Converter(<<"is None">>, <<"None">>, Pri(EXTREMELY_HIGH + 1),
              "None -> None")
\* The identity converter at the default priority.
JIdentity_default ==
    Converter(<<"isjava">>, <<"identity">>, Pri(NORMAL),
              "Java object identity")

JIdentity ==
    Converter(<<"isjava">>, <<"identity">>, Pri(EXTREMELY_HIGH),
              "Java object identity")
JString ==
    Converter(<<"isinstance str">>, <<"String">>, Pri(NORMAL),
              "str -> java.lang.String")
\* The bool converter left at the default priority.
JBooleanConverter_default ==
    Converter(<<"isinstance bool">>, <<"Boolean">>, Pri(NORMAL),
              "bool -> java.lang.Boolean")

JBooleanConverter ==
    Converter(<<"isinstance bool">>, <<"Boolean">>, Pri(NORMAL + 1),
              "bool -> java.lang.Boolean")
JByteConverter ==
    Converter(<<"IsByte">>, <<"Byte">>, Pri(HIGH), "int -> java.lang.Byte")
JShortConverter ==
    Converter(<<"IsShort">>, <<"Short">>, Pri(HIGH), "int -> java.lang.Short")
JIntegerConverter ==
    Converter(<<"IsInteger">>, <<"Integer">>, Pri(NORMAL),
              "int -> java.lang.Integer")
JLongConverter ==
    Converter(<<"IsLong">>, <<"Long">>, Pri(NORMAL - 1),
              "int -> java.lang.Long")
JBigIntegerConverter ==
    Converter(<<"IsBigInteger">>, <<"BigInteger">>, Pri(NORMAL - 2),
              "int -> java.math.BigInteger")
JFloatConverter ==
    Converter(<<"IsFloat">>, <<"Float">>, Pri(NORMAL),
              "float -> java.lang.Float")
JDoubleConverter ==
    Converter(<<"IsDouble">>, <<"Double">>, Pri(NORMAL - 1),
              "float -> java.lang.Double")
JBigDecimalConverter ==
    Converter(<<"IsBigDecimal">>, <<"BigDecimal">>, Pri(NORMAL - 2),
              "float -> java.math.BigDecimal")
JPathConverter ==
    Converter(<<"isinstance Path">>, <<"Paths.get">>, Pri(NORMAL + 1),
              "pathlib.Path -> java.nio.file.Path")
JTableConverter ==
    Converter(<<"is DataFrame">>, <<"_pandas_to_table">>, Pri(NORMAL + 1),
              "pandas.DataFrame -> org.scijava.table.Table")
JMapConverter ==
    Converter(<<"isinstance Mapping">>, <<"_convertMap">>, Pri(NORMAL),
              "collections.abc.Mapping -> java.util.Map")
JSetConverter ==
    Converter(<<"isinstance Set">>, <<"_convertSet">>, Pri(NORMAL),
              "collections.abc.Set -> java.util.Set")
JIterableConverter ==
    Converter(<<"isinstance Iterable">>, <<"_convertIterable">>,
              Pri(NORMAL - 1),
              "collections.abc.Iterable -> java.util.Iterable")

_stock_java_converters ==
    <<JOther, JNone, JIdentity, JString, JBooleanConverter, JByteConverter,
      JShortConverter, JIntegerConverter, JLongConverter,
      JBigIntegerConverter, JFloatConverter, JDoubleConverter,
      JBigDecimalConverter, JPathConverter, JTableConverter, JMapConverter,
      JSetConverter, JIterableConverter>>

(***************************************************************************)
(* _stock_py_converters(): the Java-to-Python converters, in the order the *)
(* list is built.  The Table converter is there when pandas imports, the   *)
(* ndarray converter when numpy does (JPype mode).                         *)
(***************************************************************************)
Boxed(cls, converter, name) ==
    Converter(<<"jinstance", cls>>, <<converter>>, Pri(NORMAL), name)

POther ==
    Converter(<<"True">>, <<"_raise_type_exception">>,
              Pri(EXTREMELY_LOW - 1), "Other (Exceptional) converter")
PIdentity ==
    Converter(<<"not isjava">>, <<"identity">>, Pri(EXTREMELY_HIGH),
              "Python object identity")
PCharacter ==
    Boxed("java.lang.Character", "lambda obj: str",
          "java.lang.Character -> str")
PCollection ==
    Converter(<<"jinstance", "java.util.Collection">>, <<"JavaCollection">>,
              Pri(NORMAL - 1),
              "java.util.Collection -> scyjava.JavaCollection (collections.abc.Collection)")
PIterable ==
    Converter(<<"jinstance", "java.lang.Iterable">>, <<"JavaIterable">>,
              Pri(NORMAL - 1),
              "java.lang.Iterable -> scyjava.JavaIterable (collections.abc.Iterable)")
PIterator ==
    Converter(<<"jinstance", "java.util.Iterator">>, <<"JavaIterator">>,
              Pri(NORMAL - 1),
              "java.util.Iterator -> scyjava.JavaIterator (collections.abc.Iterator)")
PPath ==
    Converter(<<"jinstance", "java.nio.file.Path">>, <<"Path">>,
              Pri(NORMAL + 1), "java.nio.file.Path -> pathlib.Path")
PArray ==
    Converter(<<"is_jarray">>, <<"list of to_python">>, Pri(VERY_LOW),
              "jarray -> list")
PTable ==
    Converter(<<"_is_table">>, <<"_convert_table">>, Pri(HIGH),
              "org.scijava.table.Table -> pandas.DataFrame")
PNdarray ==
    Converter(<<"_supports_jarray_to_ndarray">>, <<"_jarray_to_ndarray">>,
              Pri(NORMAL), "primitive array -> numpy.ndarray")

PBase ==
    <<POther, PIdentity,
      Boxed("java.lang.Boolean", "booleanValue", "java.lang.Boolean -> bool"),
      Boxed("java.lang.Byte", "byteValue", "java.lang.Byte -> int"),
      PCharacter,
      Boxed("java.lang.Double", "doubleValue", "java.lang.Double -> float"),
      Boxed("java.lang.Float", "floatValue", "java.lang.Float -> float"),
      Boxed("java.lang.Integer", "intValue", "java.lang.Integer -> int"),
      Boxed("java.lang.Long", "longValue", "java.lang.Long -> int"),
      Boxed("java.lang.Short", "shortValue", "java.lang.Short -> int"),
      Boxed("java.lang.String", "str", "java.lang.String -> str"),
      Boxed("java.math.BigInteger", "int of str",
            "java.math.BigInteger -> int"),
      Boxed("java.math.BigDecimal", "float of str",
            "java.math.BigDecimal -> float"),
      Boxed("java.util.List", "JavaList",
            "java.util.List -> scyjava.JavaList (list-like)"),
      Boxed("java.util.Map", "JavaMap",
            "java.util.Map -> scyjava.JavaMap (dict-like)"),
      Boxed("java.util.Set", "JavaSet",
            "java.util.Set -> scyjava.JavaSet (set-like)"),
      PCollection, PIterable, PIterator, PPath, PArray>>

PJPype ==
    <<Converter(<<"isinstance JBoolean">>, <<"bool">>, Pri(NORMAL + 1),
                "JBoolean -> bool"),
      Converter(<<"isinstance JByte/JInt/JLong/JShort">>, <<"int">>,
                Pri(NORMAL + 1), "JByte/JInt/JLong/JShort -> int"),
      Converter(<<"isinstance JDouble/JFloat">>, <<"float">>,
                Pri(NORMAL + 1), "JDouble/JFloat -> float"),
      Converter(<<"isinstance JChar">>, <<"str of JChar">>, Pri(NORMAL + 1),
                "JChar -> str")>>

_stock_py_converters(with_pandas, with_numpy) ==
    PBase \o (IF with_pandas THEN <<PTable>> ELSE <<>>) \o PJPype
          \o (IF with_numpy THEN <<PNdarray>> ELSE <<>>)

(***************************************************************************)
(* The predicates and converters behind the tags.                          *)
(***************************************************************************)
\* _jarray_element_type(jarr): descend through element[0] to the first
\* element that is no array; "IndexError" when an array on the way is empty.
RECURSIVE _jarray_element_type(_)
_jarray_element_type(jarr) ==
    IF ~is_jarray(jarr) THEN jarr.kind
    ELSE IF Len(jarr.val) = 0 THEN "IndexError"
    ELSE _jarray_element_type(jarr.val[1])

NdarrayTypes ==
    {"JBoolean", "JByte", "JDouble", "JFloat", "JInt", "JLong", "JShort"}

\* _supports_jarray_to_ndarray(obj)
_supports_jarray_to_ndarray(obj) ==
    is_jarray(obj) /\ _jarray_element_type(obj) \in NdarrayTypes

\* _jarray_shape(jarr): the length of each array met descending through
\* element[0]; the predicate has answered, so none of them is empty.
RECURSIVE _jarray_shape(_)
_jarray_shape(jarr) ==
    IF ~is_jarray(jarr) THEN <<>>
    ELSE <<Len(jarr.val)>> \o _jarray_shape(jarr.val[1])

\* jarraytype_map[element_type]
jarraytype_map(element_type) ==
    CASE element_type = "JBoolean" -> "bool_"
      [] element_type = "JByte" -> "int8"
      [] element_type = "JDouble" -> "float64"
      [] element_type = "JFloat" -> "float32"
      [] element_type = "JInt" -> "int32"
      [] element_type = "JLong" -> "int64"
      [] element_type = "JShort" -> "int16"

\* bytearray(jarr): a copy of the array's values as they now are, row
\* after row.
RECURSIVE bytearray(_)
bytearray(jarr) ==
    IF ~is_jarray(jarr) THEN <<jarr.val>>
    ELSE IF jarr.val = <<>> THEN <<>>
    ELSE bytearray(jarr.val[1])
           \o bytearray([jarr EXCEPT !.val = Tail(jarr.val)])

\* Product of the numbers of a shape.
RECURSIVE Volume(_)
Volume(shape) == IF shape = <<>> THEN 1 ELSE Head(shape) * Volume(Tail(shape))

\* ndarray.reshape(shape) of flat data.
RECURSIVE reshape(_, _)
reshape(flat, shape) ==
    IF Len(shape) <= 1 THEN flat
    ELSE [i \in 1..Head(shape) |->
             reshape(SubSeq(flat, (i - 1) * Volume(Tail(shape)) + 1,
                            i * Volume(Tail(shape))),
                     Tail(shape))]

\* An ndarray of a dtype and shape over its own buffer.
Ndarray(dtype_, shape, flat) ==
    [kind |-> "ndarray", dtype |-> dtype_, shape |-> shape,
     val |-> reshape(flat, shape)]

\* A conversion through memoryview(jarr): while an earlier view of the
\* array is alive, the buffer holds what the array held when that view
\* was taken.
_jarray_to_ndarray_memoryview(jarr) ==
    IF adapter.kind = "ndarray" THEN adapter
    ELSE Ndarray(jarraytype_map(_jarray_element_type(jarr)),
                 _jarray_shape(jarr), bytearray(jarr))

\* _jarray_to_ndarray(jarr)
_jarray_to_ndarray(jarr) ==
    Ndarray(jarraytype_map(_jarray_element_type(jarr)), _jarray_shape(jarr),
            bytearray(jarr))

\* The exception the predicate f raises on obj ("": none).
PredicateRaises(f, obj) ==
    IF /\ f[1] = "_supports_jarray_to_ndarray"
       /\ is_jarray(obj)
       /\ _jarray_element_type(obj) = "IndexError"
    THEN "IndexError"
    ELSE ""

\* _is_table(obj): jinstance answers for every value of the model, so the
\* except branch is not taken.
_is_table(obj) == jinstance(obj, "org.scijava.table.Table")

\* predicate(obj, **hints) of the callable tagged f.
Predicate(f, obj, hints) ==
    CASE f[1] = "True" -> TRUE
      [] f[1] = "is None" -> obj = PyNone
      [] f[1] = "isjava" -> isjava(obj)
      [] f[1] = "not isjava" -> ~isjava(obj)
      [] f[1] = "isinstance str" -> obj.kind = "str"
      [] f[1] = "str, Java or None" ->
            obj.kind = "str" \/ isjava(obj) \/ obj = PyNone
      [] f[1] = "isinstance bool" -> obj.kind = "bool"
      [] f[1] = "IsByte" -> IsByte(obj, hints)
      [] f[1] = "IsShort" -> IsShort(obj, hints)
      [] f[1] = "IsInteger" -> IsInteger(obj, hints)
      [] f[1] = "IsLong" -> IsLong(obj, hints)
      [] f[1] = "IsBigInteger" -> IsBigInteger(obj, hints)
      [] f[1] = "IsFloat" -> IsFloat(obj, hints)
      [] f[1] = "IsDouble" -> IsDouble(obj, hints)
      [] f[1] = "IsBigDecimal" -> IsBigDecimal(obj, hints)
      [] f[1] = "isinstance Path" -> obj.kind = "PosixPath"
      [] f[1] = "is DataFrame" -> obj.kind = "DataFrame"
      [] f[1] = "isinstance Mapping" -> IsMapping(obj)
      [] f[1] = "isinstance Set" -> IsSet(obj)
      [] f[1] = "isinstance Iterable" -> IsIterable(obj)
      [] f[1] = "jinstance" -> jinstance(obj, f[2])
      [] f[1] = "is_jarray" -> is_jarray(obj)
      [] f[1] = "_is_table" -> _is_table(obj)
      [] f[1] = "_supports_jarray_to_ndarray" ->
           _supports_jarray_to_ndarray(obj)
      [] f[1] = "isinstance JBoolean" -> obj.kind = "JBoolean"
      [] f[1] = "isinstance JByte/JInt/JLong/JShort" ->
           obj.kind \in {"JByte", "JInt", "JLong", "JShort"}
      [] f[1] = "isinstance JDouble/JFloat" ->
           obj.kind \in {"JDouble", "JFloat"}
      [] f[1] = "isinstance JChar" -> obj.kind = "JChar"
      [] OTHER -> FALSE

\* Converter.supports(obj, **hints): the hints reach a predicate that
\* declares **hints only.
Converter_supports(self, obj, hints) ==
    IF _has_kwargs(self.predicate)
    THEN Predicate(self.predicate, obj, hints)
    ELSE Predicate(self.predicate, obj, NoHints)

\* A boxed integer built by the class's constructor from a host int: the
\* value when it fits the Java type, and no object otherwise.
BoxInt(cls, lo, hi, obj) ==
    IF InRange(obj, lo, hi)
    THEN Ok(J(cls, IntOf(obj)))
    ELSE Raise("OverflowError", cls)

\* java.util.Map.put and java.util.Set.add on insertion-ordered contents.
MapPut(m, k, v) ==
    IF \E i \in 1..Len(m) : m[i][1] = k
    THEN [i \in 1..Len(m) |-> IF m[i][1] = k THEN <<k, v>> ELSE m[i]]
    ELSE Append(m, <<k, v>>)

SetAdd(t, e) ==
    IF \E i \in 1..Len(t) : t[i] = e THEN t ELSE Append(t, e)

RECURSIVE to_java(_, _, _), to_python(_, _, _)

\* _convertMap(obj): to_java of each key and value, put into a LinkedHashMap.
RECURSIVE _convertMapFrom(_, _, _, _)
_convertMapFrom(items, k, jmap, cx) ==
    IF k > Len(items) THEN Ok(J("java.util.LinkedHashMap", jmap))
    ELSE LET jk == to_java(items[k][1], NoHints, cx) IN
         IF jk.st # "ok" THEN jk
         ELSE LET jv == to_java(items[k][2], NoHints, cx) IN
              IF jv.st # "ok" THEN jv
              ELSE _convertMapFrom(items, k + 1,
                                   MapPut(jmap, jk.val, jv.val), cx)

_convertMap(obj, cx) == _convertMapFrom(obj.val, 1, <<>>, cx)

\* _convertSet(obj): to_java of each item, added to a LinkedHashSet.
RECURSIVE _convertSetFrom(_, _, _, _)
_convertSetFrom(items, k, jset, cx) ==
    IF k > Len(items) THEN Ok(J("java.util.LinkedHashSet", jset))
    ELSE LET jitem == to_java(items[k], NoHints, cx) IN
         IF jitem.st # "ok" THEN jitem
         ELSE _convertSetFrom(items, k + 1, SetAdd(jset, jitem.val), cx)

_convertSet(obj, cx) == _convertSetFrom(obj.val, 1, <<>>, cx)

\* The items iterating a host iterable yields: a dict its keys, a str the
\* one-character strings of its characters.
IterItems(obj) ==
    CASE obj.kind = "dict" -> [i \in 1..Len(obj.val) |-> obj.val[i][1]]
      [] obj.kind = "str" -> [i \in 1..Len(obj.val) |-> PyStr(<<obj.val[i]>>)]
      [] OTHER -> obj.val

\* An _convertIterable that leaves out the items to_java raises on.
RECURSIVE _convertIterableFrom_skipping(_, _, _, _)
_convertIterableFrom_skipping(items, k, jlist, cx) ==
    IF k > Len(items) THEN Ok(J("java.util.ArrayList", jlist))
    ELSE LET jitem == to_java(items[k], NoHints, cx) IN
         _convertIterableFrom_skipping(items, k + 1,
             IF jitem.st # "ok" THEN jlist ELSE Append(jlist, jitem.val), cx)

\* _convertIterable(obj): to_java of each item, added to an ArrayList.
RECURSIVE _convertIterableFrom(_, _, _, _)
_convertIterableFrom(items, k, jlist, cx) ==
    IF k > Len(items) THEN Ok(J("java.util.ArrayList", jlist))
    ELSE LET jitem == to_java(items[k], NoHints, cx) IN
         IF jitem.st # "ok" THEN jitem
         ELSE _convertIterableFrom(items, k + 1, Append(jlist, jitem.val), cx)

_convertIterable(obj, cx) == _convertIterableFrom(IterItems(obj), 1, <<>>, cx)

\* A list comprehension that converts each element with gentle.
RECURSIVE ListOfToPython_gentle(_, _, _, _)
ListOfToPython_gentle(items, k, out, cx) ==
    IF k > Len(items) THEN Ok(PyList(out))
    ELSE LET o == to_python(items[k], TRUE, cx) IN
         IF o.st # "ok" THEN o
         ELSE ListOfToPython_gentle(items, k + 1, Append(out, o.val), cx)

\* [to_python(o) for o in obj]
RECURSIVE ListOfToPython(_, _, _, _)
ListOfToPython(items, k, out, cx) ==
    IF k > Len(items) THEN Ok(PyList(out))
    ELSE LET o == to_python(items[k], FALSE, cx) IN
         IF o.st # "ok" THEN o
         ELSE ListOfToPython(items, k + 1, Append(out, o.val), cx)

\* The dtype pandas gives a column of host cells.
dtype(column) ==
    LET kinds == {column[i].kind : i \in 1..Len(column)} IN
    CASE kinds = {"float"} -> "float64"
      [] kinds = {"int"} -> "int64"
      [] kinds = {"bool"} -> "bool"
      [] OTHER -> "object"

\* The class _pandas_to_table instantiates for df.
TableClass(df) ==
    LET unique == {dtype(df.val[c]) : c \in 1..Len(df.val)} IN
    IF Cardinality(unique) > 1 THEN "org.scijava.table.DefaultGenericTable"
    ELSE IF unique = {} THEN "IndexError"
    ELSE IF unique = {"float64"} THEN "org.scijava.table.DefaultFloatTable"
    ELSE IF unique = {"int64"} THEN "org.scijava.table.DefaultIntTable"
    ELSE IF unique = {"bool"} THEN "org.scijava.table.DefaultBoolTable"
    ELSE "Exception"

\* The loops of _pandas_to_table: row by row, column by column,
\* table.set(header, i, to_java(value)).  n counts the cells done.
RECURSIVE _pandas_to_tableFrom(_, _, _, _)
_pandas_to_tableFrom(df, n, table, cx) ==
    LET ncols == Len(df.val)
        nrows == IF ncols = 0 THEN 0 ELSE Len(df.val[1])
    IN
    IF n >= nrows * ncols THEN Ok(J(TableClass(df), table))
    ELSE LET i == (n \div ncols) + 1
             c == (n % ncols) + 1
             jv == to_java(df.val[c][i], NoHints, cx)
         IN
         IF jv.st # "ok" THEN jv
         ELSE _pandas_to_tableFrom(df, n + 1,
                                   [table EXCEPT ![c][i] = jv.val], cx)

\* _pandas_to_table(df): a table of the columns of df, each cell to_java of
\* the cell of df.
_pandas_to_table(df, cx) ==
    IF TableClass(df) \in {"IndexError", "Exception"}
    THEN Raise(TableClass(df), "dtype")
    ELSE _pandas_to_tableFrom(df, 0,
             [c \in 1..Len(df.val) |-> [i \in 1..Len(df.val[c]) |-> PyNone]],
             cx)

\* _table_to_pandas(table): data[j] = to_python(data[j]) for the array of
\* each column, then the DataFrame of these lists.
RECURSIVE _table_to_pandasFrom(_, _, _, _)
_table_to_pandasFrom(table, j, data, cx) ==
    IF j > Len(table.val) THEN Ok(DataFrame(data))
    ELSE LET column == to_python(J("JArray", table.val[j]), FALSE, cx) IN
         IF column.st # "ok" THEN column
         ELSE _table_to_pandasFrom(table, j + 1,
                                   Append(data, column.val.val), cx)

_table_to_pandas(table, cx) == _table_to_pandasFrom(table, 1, <<>>, cx)

\* _convert_table(obj): _table_to_pandas(obj), and None when it raises.
_convert_table(obj, cx) ==
    LET df == _table_to_pandas(obj, cx) IN
    IF df.st # "ok" THEN Ok(PyNone) ELSE df

\* The Java type each adapter class is for.
intended_class(cls) ==
    CASE cls = "JavaIterable" -> "java.lang.Iterable"
      [] cls = "JavaCollection" -> "java.util.Collection"
      [] cls = "JavaIterator" -> "java.util.Iterator"
      [] cls = "JavaList" -> "java.util.List"
      [] cls = "JavaMap" -> "java.util.Map"
      [] cls = "JavaSet" -> "java.util.Set"

\* JavaObject.__init__(self, jobj, intended_class), called by the
\* constructor of the adapter class cls.
JavaObject___init__(cls, jobj_) ==
    IF jinstance(jobj_, intended_class(cls))
    THEN Ok([kind |-> cls, val |-> jobj_])
    ELSE Raise("TypeError", "Not a " \o intended_class(cls))

\* converter(obj) of the callable tagged f.
Call(f, obj, hints, cx) ==
    CASE f[1] = "_raise_type_exception" -> _raise_type_exception(obj)
      [] f[1] = "None" -> Ok(PyNone)
      [] f[1] = "identity" -> Ok(obj)
      [] f[1] = "String" -> Ok(J("java.lang.String", obj.val))
      [] f[1] = "Boolean" -> Ok(J("java.lang.Boolean", obj.val))
      [] f[1] = "Byte" ->
           BoxInt("java.lang.Byte", Byte_MIN_VALUE, Byte_MAX_VALUE, obj)
      [] f[1] = "Short" ->
           BoxInt("java.lang.Short", Short_MIN_VALUE, Short_MAX_VALUE, obj)
      [] f[1] = "Integer" ->
           BoxInt("java.lang.Integer", Integer_MIN_VALUE, Integer_MAX_VALUE,
                  obj)
      [] f[1] = "Long" ->
           BoxInt("java.lang.Long", Long_MIN_VALUE, Long_MAX_VALUE, obj)
      [] f[1] = "BigInteger" ->
           Ok(J("java.math.BigInteger", StrToInt(IntToStr(IntOf(obj)))))
      [] f[1] = "Float" -> Ok(J("java.lang.Float", obj.val))
      [] f[1] = "Double" -> Ok(J("java.lang.Double", obj.val))
      [] f[1] = "BigDecimal" -> Ok(J("java.math.BigDecimal", obj.val))
      [] f[1] = "Paths.get" -> Ok(J("sun.nio.fs.UnixPath", obj.val))
      [] f[1] = "_pandas_to_table" -> _pandas_to_table(obj, cx)
      [] f[1] = "_convertMap" -> _convertMap(obj, cx)
      [] f[1] = "_convertSet" -> _convertSet(obj, cx)
      [] f[1] = "_convertIterable" -> _convertIterable(obj, cx)
      [] f[1] = "invader" -> Ok(J("java.lang.String", f[2]))
      [] f[1] = "booleanValue" -> Ok(PyBool(obj.val))
      [] f[1] \in {"byteValue", "shortValue", "intValue", "longValue"} ->
           Ok(PyInt(obj.val))
      [] f[1] = "lambda obj: str" -> Ok([kind |-> "type", val |-> "str"])
      [] f[1] \in {"doubleValue", "floatValue", "float of str"} ->
           Ok(PyFloat(obj.val))
      [] f[1] = "str" -> Ok(PyStr(obj.val))
      [] f[1] = "int of str" -> Ok(PyInt(StrToInt(IntToStr(obj.val))))
      [] f[1] \in {"JavaList", "JavaMap", "JavaSet", "JavaCollection",
                   "JavaIterable", "JavaIterator"} ->
           JavaObject___init__(f[1], obj)
      [] f[1] = "Path" -> Ok(PyPath(obj.val))
      [] f[1] = "list of to_python" -> ListOfToPython(obj.val, 1, <<>>, cx)
      [] f[1] = "_convert_table" -> _convert_table(obj, cx)
      [] f[1] = "_jarray_to_ndarray" ->
           Ok(_jarray_to_ndarray(obj))
      [] f[1] = "bool" -> Ok(PyBool(obj.val))
      [] f[1] = "int" -> Ok(PyInt(obj.val))
      [] f[1] = "float" -> Ok(PyFloat(obj.val))
      [] f[1] = "str of JChar" -> Ok(PyStr(<<obj.val>>))
      [] OTHER -> Raise("RuntimeError", f[1])

\* Converter.convert(obj, **hints): the hints reach a converter that
\* declares **hints only.
Converter_convert(self, obj, hints, cx) ==
    IF _has_kwargs(self.converter)
    THEN Call(self.converter, obj, hints, cx)
    ELSE Call(self.converter, obj, NoHints, cx)

(***************************************************************************)
(* _convert(obj, converters, **hints): try the converters from the end of  *)
(* the list; the first one that supports obj converts it.  When none does, *)
(* the loop ends and the function returns None.  cx holds both registries, *)
(* for the converters that call to_java or to_python themselves.           *)
(***************************************************************************)
RECURSIVE ScanReversed(_, _, _, _, _)
ScanReversed(obj, converters, hints, cx, i) ==
    IF i = 0 THEN Ok(PyNone)
    ELSE LET converter == converters[i] IN
         IF PredicateRaises(converter.predicate, obj) # ""
         THEN Raise(PredicateRaises(converter.predicate, obj), obj.kind)
         ELSE IF Converter_supports(converter, obj, hints)
         THEN [Converter_convert(converter, obj, hints, cx)
                 EXCEPT !.rule = converter]
         ELSE ScanReversed(obj, converters, hints, cx, i - 1)

\* The same scan from the front of the list: for converter in converters.
RECURSIVE ScanForward(_, _, _, _, _)
ScanForward(obj, converters, hints, cx, i) ==
    IF i > Len(converters) THEN Ok(PyNone)
    ELSE LET converter == converters[i] IN
         IF PredicateRaises(converter.predicate, obj) # ""
         THEN Raise(PredicateRaises(converter.predicate, obj), obj.kind)
         ELSE IF Converter_supports(converter, obj, hints)
         THEN [Converter_convert(converter, obj, hints, cx)
                 EXCEPT !.rule = converter]
         ELSE ScanForward(obj, converters, hints, cx, i + 1)

_convert_forward(obj, converters, hints, cx) ==
    ScanForward(obj, converters, hints, cx, 1)

_convert(obj, converters, hints, cx) ==
    ScanReversed(obj, converters, hints, cx, Len(converters))

\* to_java(obj, **hints), once start_jvm() has returned.
to_java(obj, hints, cx) == _convert(obj, cx.java, hints, cx)

\* to_python that raises whatever gentle says.
to_python_strict(data, gentle, cx) == _convert(data, cx.py, NoHints, cx)

\* to_python(data, gentle), once start_jvm() has returned.
to_python(data, gentle, cx) ==
    LET r == _convert(data, cx.py, NoHints, cx) IN
    IF r.st = "TypeError" /\ gentle THEN [r EXCEPT !.st = "ok", !.val = data]
    ELSE r

(***************************************************************************)
(* The adapters of _convert.py: JavaIterable, JavaCollection, JavaIterator, *)
(* JavaList, JavaMap and JavaSet.  An adapter is [kind, val]: kind is its   *)
(* class and val the Java object self.jobj stands for.  A method that       *)
(* changes the Java object answers [out, jobj]: what the call returns or    *)
(* raises, and the object afterwards.  Java's null is None.                 *)
(***************************************************************************)
RECURSIVE Digits(_)
Digits(n) == IF n < 10 THEN <<n>> ELSE Append(Digits(n \div 10), n % 10)

RECURSIVE DigitsValue(_)
DigitsValue(digs) ==
    IF digs = <<>> THEN 0
    ELSE 10 * DigitsValue(SubSeq(digs, 1, Len(digs) - 1)) + digs[Len(digs)]

\* The number a host int stands for; one of four digits or more is beyond
\* every index of the model, whatever it is exactly.
IntValue(i) ==
    LET m == IF Len(i.digs) > 3 THEN 1000 ELSE DigitsValue(i.digs) IN
    IF i.neg THEN 0 - m ELSE m

\* What JPype returns for a Java int and a Java boolean.
JInt(n) == J("JInt", Pos(Digits(n)))
JBoolean(b) == J("JBoolean", b)

\* java.util.Collection.size, contains and iterator, java.util.Map.size.
size(j) == JInt(Len(j.val))
contains(j, o) == JBoolean(\E i \in 1..Len(j.val) : j.val[i] = o)
iterator(j) == J("java.util.ArrayList$Itr", j.val)

\* java.util.List.get(int), set(int, Object) and remove(Object); key is the
\* host int JPype passes as the int.
InBounds(j, key) ==
    /\ key.kind = "int"
    /\ IntValue(key.val) \in 0..(Len(j.val) - 1)

OutOfBounds(key) ==
    IF key.kind = "int"
    THEN Raise("java.lang.IndexOutOfBoundsException", "index")
    ELSE Raise("TypeError", "No matching overloads found")

get(j, key) ==
    IF InBounds(j, key) THEN Ok(j.val[IntValue(key.val) + 1])
    ELSE OutOfBounds(key)

set(j, key, element) ==
    IF InBounds(j, key)
    THEN [out |-> Ok(j.val[IntValue(key.val) + 1]),
          jobj |-> [j EXCEPT !.val[IntValue(key.val) + 1] = element]]
    ELSE [out |-> OutOfBounds(key), jobj |-> j]

\* java.util.List.add(int, Object): the elements from the index on move up.
addAt(j, key, element) ==
    IF InBounds(j, key)
    THEN [out |-> Ok(PyNone),
          jobj |-> [j EXCEPT !.val = SubSeq(j.val, 1, IntValue(key.val))
                                       \o <<element>>
                                       \o SubSeq(j.val, IntValue(key.val) + 1,
                                                 Len(j.val))]]
    ELSE [out |-> OutOfBounds(key), jobj |-> j]

\* The sequence without its element at position p.
Without(s, p) == SubSeq(s, 1, p - 1) \o SubSeq(s, p + 1, Len(s))

\* java.util.Collection.remove(Object): the first element equal to o goes,
\* and the answer is whether there was one.
remove(j, o) ==
    IF \E i \in 1..Len(j.val) : j.val[i] = o
    THEN LET p == CHOOSE i \in 1..Len(j.val) :
                     /\ j.val[i] = o
                     /\ \A k \in 1..(i - 1) : j.val[k] # o
         IN [out |-> Ok(JBoolean(TRUE)),
             jobj |-> [j EXCEPT !.val = Without(j.val, p)]]
    ELSE [out |-> Ok(JBoolean(FALSE)), jobj |-> j]

\* java.util.Set.add
add(j, o) ==
    [out |-> Ok(JBoolean(~\E i \in 1..Len(j.val) : j.val[i] = o)),
     jobj |-> [j EXCEPT !.val = SetAdd(j.val, o)]]

\* java.util.Map.get, put, remove and keySet, on the pairs of the map.
Map_get(j, k) ==
    IF \E i \in 1..Len(j.val) : j.val[i][1] = k
    THEN (CHOOSE pair \in {j.val[i] : i \in 1..Len(j.val)} : pair[1] = k)[2]
    ELSE PyNone

put(j, k, v) ==
    [out |-> Ok(Map_get(j, k)), jobj |-> [j EXCEPT !.val = MapPut(j.val, k, v)]]

Map_remove(j, k) ==
    [out |-> Ok(Map_get(j, k)),
     jobj |-> [j EXCEPT !.val = SelectSeq(j.val, LAMBDA pair : pair[1] # k)]]

keySet(j) ==
    J("java.util.LinkedHashMap$LinkedKeySet",
      [i \in 1..Len(j.val) |-> j.val[i][1]])

\* java.util.Iterator.hasNext and next
hasNext(j) == Len(j.val) > 0
next(j) == [out |-> Ok(Head(j.val)), jobj |-> [j EXCEPT !.val = Tail(j.val)]]

\* The first of the results that is an exception.
FirstRaised(results) ==
    results[CHOOSE i \in 1..Len(results) :
               /\ results[i].st # "ok"
               /\ \A k \in 1..(i - 1) : results[k].st = "ok"]

\* self.jobj.method(*args): the arguments are evaluated first, in order,
\* and an exception of one of them leaves before the method is called.
invoke(j, method, args) ==
    IF \E i \in 1..Len(args) : args[i].st # "ok"
    THEN [out |-> FirstRaised(args), jobj |-> j]
    ELSE CASE method = "size" -> [out |-> Ok(size(j)), jobj |-> j]
           [] method = "iterator" -> [out |-> Ok(iterator(j)), jobj |-> j]
           [] method = "keySet" -> [out |-> Ok(keySet(j)), jobj |-> j]
           [] method = "contains" ->
                [out |-> Ok(contains(j, args[1].val)), jobj |-> j]
           [] method = "next" -> next(j)
           [] method = "get" ->
                IF jinstance(j, "java.util.Map")
                THEN [out |-> Ok(Map_get(j, args[1].val)), jobj |-> j]
                ELSE [out |-> get(j, args[1].val), jobj |-> j]
           [] method = "set" -> set(j, args[1].val, args[2].val)
           [] method = "add at" -> addAt(j, args[1].val, args[2].val)
           [] method = "put" -> put(j, args[1].val, args[2].val)
           [] method = "add" -> add(j, args[1].val)
           [] method = "remove" ->
                IF jinstance(j, "java.util.Map")
                THEN Map_remove(j, args[1].val)
                ELSE remove(j, args[1].val)

\* to_python(r, gentle=True) and to_python(r) of what a Java method
\* returned; its exception leaves as it is.
Gently(r, cx) == IF r.st # "ok" THEN r ELSE to_python(r.val, TRUE, cx)
Strictly(r, cx) == IF r.st # "ok" THEN r ELSE to_python(r.val, FALSE, cx)
GentlyOut(r, cx) == [out |-> Gently(r.out, cx), jobj |-> r.jobj]
StrictlyOut(r, cx) == [out |-> Strictly(r.out, cx), jobj |-> r.jobj]

\* A JavaIterator.__next__ that converts without gentle.
JavaIterator___next___strict(self, cx) ==
    IF hasNext(self.val)
    THEN StrictlyOut(invoke(self.val, "next", <<>>), cx)
    ELSE [out |-> Raise("StopIteration", ""), jobj |-> self.val]

\* JavaIterator.__next__
JavaIterator___next__(self, cx) ==
    IF hasNext(self.val)
    THEN GentlyOut(invoke(self.val, "next", <<>>), cx)
    ELSE [out |-> Raise("StopIteration", ""), jobj |-> self.val]

\* JavaIterable.__iter__ and JavaSet.__iter__
JavaIterable___iter__(self, cx) ==
    Strictly(invoke(self.val, "iterator", <<>>).out, cx)

\* JavaCollection.__len__ and JavaMap.__len__
JavaCollection___len__(self, cx) ==
    Strictly(invoke(self.val, "size", <<>>).out, cx)

\* JavaCollection.__contains__
JavaCollection___contains__(self, item, cx) ==
    Strictly(invoke(self.val, "contains",
                    <<to_java(item, NoHints, cx)>>).out, cx)

\* JavaList.__getitem__
JavaList___getitem__(self, key, cx) ==
    Gently(invoke(self.val, "get", <<Ok(key)>>).out, cx)

\* A JavaList.__setitem__ that calls List.add(int, Object).
JavaList___setitem___inserting(self, key, value, cx) ==
    GentlyOut(invoke(self.val, "add at",
                     <<Ok(key), to_java(value, NoHints, cx)>>), cx)

\* JavaList.__setitem__
JavaList___setitem__(self, key, value, cx) ==
    GentlyOut(invoke(self.val, "set",
                     <<Ok(key), to_java(value, NoHints, cx)>>), cx)

\* JavaList.insert: List.set(int, Object), as __setitem__.
JavaList_insert(self, index, object, cx) ==
    GentlyOut(invoke(self.val, "set",
                     <<Ok(index), to_java(object, NoHints, cx)>>), cx)

\* JavaList.__delitem__: to_java makes the key a java.lang.Integer, and the
\* call is List.remove(Object), which answers a boolean.
JavaList___delitem__(self, key, cx) ==
    StrictlyOut(invoke(self.val, "remove", <<to_java(key, NoHints, cx)>>),
                cx)

\* A JavaMap.__getitem__ that passes the key as it is.
JavaMap___getitem___raw(self, key, cx) ==
    Gently(invoke(self.val, "get", <<Ok(key)>>).out, cx)

\* JavaMap.__getitem__
JavaMap___getitem__(self, key, cx) ==
    Gently(invoke(self.val, "get", <<to_java(key, NoHints, cx)>>).out, cx)

\* JavaMap.__setitem__
JavaMap___setitem__(self, key, value, cx) ==
    GentlyOut(invoke(self.val, "put",
                     <<to_java(key, NoHints, cx),
                       to_java(value, NoHints, cx)>>), cx)

\* JavaMap.__delitem__
JavaMap___delitem__(self, key, cx) ==
    GentlyOut(invoke(self.val, "remove", <<to_java(key, NoHints, cx)>>), cx)

\* JavaMap.keys
JavaMap_keys(self, cx) == Strictly(invoke(self.val, "keySet", <<>>).out, cx)

\* keys.__iter__() of what JavaMap.keys returned.
keys___iter__(keys, cx) ==
    IF keys.st # "ok" THEN keys
    ELSE IF keys.val.kind \in {"JavaSet", "JavaCollection", "JavaIterable"}
    THEN JavaIterable___iter__(keys.val, cx)
    ELSE Raise("AttributeError", "__iter__")

\* JavaMap.__iter__: self.keys().__iter__()
JavaMap___iter__(self, cx) == keys___iter__(JavaMap_keys(self, cx), cx)

\* JavaSet.add
JavaSet_add(self, item, cx) ==
    StrictlyOut(invoke(self.val, "add", <<to_java(item, NoHints, cx)>>), cx)

\* JavaSet.discard
JavaSet_discard(self, item, cx) ==
    StrictlyOut(invoke(self.val, "remove", <<to_java(item, NoHints, cx)>>),
                cx)

(***************************************************************************)
(* What Python does with the values an adapter's __eq__ hands it: len(),   *)
(* iter(), in, [] and ==.  Each answers as a call does, Ok or Raise.  The  *)
(* value an adapter is compared with is a host value, no adapter.          *)
(***************************************************************************)
\* Whether hash(o) answers: the containers, and the adapters that define
\* __eq__, are unhashable.
Hashable(o) ==
    o.kind \notin {"list", "dict", "set", "JavaCollection", "JavaList",
                   "JavaMap", "JavaSet"}

IsSubstring(a, b) ==
    \E i \in 0..(Len(b) - Len(a)) : SubSeq(b, i + 1, i + Len(a)) = a

\* except TypeError: return False
ExceptTypeError(r) == IF r.st = "TypeError" THEN Ok(PyBool(FALSE)) ELSE r

\* An except clause that catches IndexError as well.
ExceptLookupError(r) ==
    IF r.st \in {"TypeError", "IndexError"} THEN Ok(PyBool(FALSE)) ELSE r

RECURSIVE PyEq(_, _, _)

\* for e in iterator: the items next() returns until StopIteration.
RECURSIVE Exhaust(_, _, _)
ExhaustStep(r, iter, items, cx) ==
    IF r.out.st = "StopIteration" THEN Ok(items)
    ELSE IF r.out.st # "ok" THEN r.out
    ELSE Exhaust([iter EXCEPT !.val = r.jobj], Append(items, r.out.val), cx)

Exhaust(iter, items, cx) ==
    ExhaustStep(JavaIterator___next__(iter, cx), iter, items, cx)

\* list(iter), iter being what __iter__ returned.
ListOfIter(iter, cx) ==
    IF iter.st # "ok" THEN iter
    ELSE IF iter.val.kind # "JavaIterator"
    THEN Raise("TypeError", "iter() returned non-iterator")
    ELSE Exhaust(iter.val, <<>>, cx)

\* list(self) of an adapter: the items iterating it yields.
AdapterItems(self, cx) ==
    ListOfIter(IF self.kind = "JavaMap" THEN JavaMap___iter__(self, cx)
               ELSE JavaIterable___iter__(self, cx), cx)

\* len(o)
PyLen(o) ==
    IF o.kind \in {"list", "dict", "set", "str"}
    THEN Ok(PyInt(Pos(Digits(Len(o.val)))))
    ELSE Raise("TypeError", o.kind)

\* list(o): the items iterating o yields.
PyIter(o) ==
    IF o.kind \in {"list", "dict", "set", "str"} THEN Ok(IterItems(o))
    ELSE Raise("TypeError", o.kind)

\* any(e == x for e in items), from item i on.
RECURSIVE AnyEq(_, _, _, _)
AnyEq(items, x, i, cx) ==
    IF i > Len(items) THEN Ok(PyBool(FALSE))
    ELSE LET eq == PyEq(items[i], x, cx) IN
         IF eq.st # "ok" THEN eq
         ELSE IF eq.val.val THEN eq
         ELSE AnyEq(items, x, i + 1, cx)

\* all(a == b for a, b in zip(xs, ys)), from item i on.
RECURSIVE AllEq(_, _, _, _)
AllEq(xs, ys, i, cx) ==
    IF i > Len(xs) \/ i > Len(ys) THEN Ok(PyBool(TRUE))
    ELSE LET eq == PyEq(xs[i], ys[i], cx) IN
         IF eq.st # "ok" THEN eq
         ELSE IF ~eq.val.val THEN eq
         ELSE AllEq(xs, ys, i + 1, cx)

\* x in o
PyContains(o, x, cx) ==
    CASE o.kind = "list" -> AnyEq(o.val, x, 1, cx)
      [] o.kind \in {"dict", "set"} ->
            IF Hashable(x) THEN AnyEq(IterItems(o), x, 1, cx)
            ELSE Raise("TypeError", "unhashable type")
      [] o.kind = "str" ->
            IF x.kind = "str" THEN Ok(PyBool(IsSubstring(x.val, o.val)))
            ELSE Raise("TypeError", "'in <string>' requires string")
      [] OTHER -> Raise("TypeError", o.kind)

\* The value of the first pair of a dict whose key equals x.
RECURSIVE DictLookup(_, _, _, _)
DictLookup(items, x, i, cx) ==
    IF i > Len(items) THEN Raise("KeyError", "key")
    ELSE LET eq == PyEq(items[i][1], x, cx) IN
         IF eq.st # "ok" THEN eq
         ELSE IF eq.val.val THEN Ok(items[i][2])
         ELSE DictLookup(items, x, i + 1, cx)

\* o[x]
PyGetItem(o, x, cx) ==
    CASE o.kind \in {"list", "str"} ->
            IF ~IsInt(x) THEN Raise("TypeError", "indices must be integers")
            ELSE LET v == IntValue(IntOf(x))
                     p == IF v < 0 THEN v + Len(o.val) + 1 ELSE v + 1
                 IN
                 IF p \notin 1..Len(o.val) THEN Raise("IndexError", o.kind)
                 ELSE IF o.kind = "str" THEN Ok(PyStr(<<o.val[p]>>))
                 ELSE Ok(o.val[p])
      [] o.kind = "dict" ->
            IF Hashable(x) THEN DictLookup(o.val, x, 1, cx)
            ELSE Raise("TypeError", "unhashable type")
      [] OTHER -> Raise("TypeError", o.kind)

\* The rest of JavaCollection.__eq__'s try block, the lengths and the items
\* of both sides being known.
JavaCollection_eq_zip(n, m, mine, theirs, cx) ==
    IF n.st # "ok" THEN n
    ELSE IF m.st # "ok" THEN m
    ELSE IF n.val # m.val THEN Ok(PyBool(FALSE))
    ELSE IF mine.st # "ok" THEN mine
    ELSE IF theirs.st # "ok" THEN theirs
    ELSE AllEq(mine.val, theirs.val, 1, cx)

\* The try block of JavaCollection.__eq__.
JavaCollection_eq_try(self, other, cx) ==
    JavaCollection_eq_zip(JavaCollection___len__(self, cx), PyLen(other),
                          AdapterItems(self, cx), PyIter(other), cx)

\* JavaCollection.__eq__
JavaCollection___eq__(self, other, cx) ==
    ExceptTypeError(JavaCollection_eq_try(self, other, cx))

\* The loop of JavaMap.__eq__, for k in self, from key i on; mine is
\* self[k].
RECURSIVE JavaMap_eq_for(_, _, _, _, _)
JavaMap_eq_k(mine, self, keys, i, other, cx) ==
    LET in == PyContains(other, keys[i], cx)
        theirs == PyGetItem(other, keys[i], cx)
    IN
    IF in.st # "ok" THEN in
    ELSE IF ~in.val.val THEN in
    ELSE IF mine.st # "ok" THEN mine
    ELSE IF theirs.st # "ok" THEN theirs
    ELSE LET eq == PyEq(mine.val, theirs.val, cx) IN
         IF eq.st # "ok" THEN eq
         ELSE IF ~eq.val.val THEN eq
         ELSE JavaMap_eq_for(self, keys, i + 1, other, cx)

JavaMap_eq_for(self, keys, i, other, cx) ==
    IF i > Len(keys) THEN Ok(PyBool(TRUE))
    ELSE JavaMap_eq_k(JavaMap___getitem__(self, keys[i], cx), self, keys, i,
                      other, cx)

\* The rest of JavaMap.__eq__'s try block, the lengths and the keys of self
\* being known.
JavaMap_eq_keys(n, m, keys, self, other, cx) ==
    IF n.st # "ok" THEN n
    ELSE IF m.st # "ok" THEN m
    ELSE IF n.val # m.val THEN Ok(PyBool(FALSE))
    ELSE IF keys.st # "ok" THEN keys
    ELSE JavaMap_eq_for(self, keys.val, 1, other, cx)

\* The try block of JavaMap.__eq__.
JavaMap_eq_try(self, other, cx) ==
    JavaMap_eq_keys(JavaCollection___len__(self, cx), PyLen(other),
                    AdapterItems(self, cx), self, other, cx)

\* A JavaMap.__eq__ whose except clause catches IndexError as well.
JavaMap___eq___lookup(self, other, cx) ==
    ExceptLookupError(JavaMap_eq_try(self, other, cx))

\* JavaMap.__eq__
JavaMap___eq__(self, other, cx) ==
    ExceptTypeError(JavaMap_eq_try(self, other, cx))

\* The loop of JavaSet.__eq__, for k in self, from item i on.
RECURSIVE JavaSet_eq_for(_, _, _, _)
JavaSet_eq_for(items, i, other, cx) ==
    IF i > Len(items) THEN Ok(PyBool(TRUE))
    ELSE LET in == PyContains(other, items[i], cx) IN
         IF in.st # "ok" THEN in
         ELSE IF ~in.val.val THEN in
         ELSE JavaSet_eq_for(items, i + 1, other, cx)

\* The rest of JavaSet.__eq__'s try block, the lengths and the items of
\* self being known.
JavaSet_eq_items(n, m, items, other, cx) ==
    IF n.st # "ok" THEN n
    ELSE IF m.st # "ok" THEN m
    ELSE IF n.val # m.val THEN Ok(PyBool(FALSE))
    ELSE IF items.st # "ok" THEN items
    ELSE JavaSet_eq_for(items.val, 1, other, cx)

\* The try block of JavaSet.__eq__.
JavaSet_eq_try(self, other, cx) ==
    JavaSet_eq_items(JavaCollection___len__(self, cx), PyLen(other),
                     AdapterItems(self, cx), other, cx)

\* JavaSet.__eq__
JavaSet___eq__(self, other, cx) ==
    ExceptTypeError(JavaSet_eq_try(self, other, cx))

\* self == other of an adapter that defines __eq__.
Adapter___eq__(self, other, cx) ==
    CASE self.kind = "JavaMap" -> JavaMap___eq__(self, other, cx)
      [] self.kind = "JavaSet" -> JavaSet___eq__(self, other, cx)
      [] OTHER -> JavaCollection___eq__(self, other, cx)

HasEq(o) == o.kind \in {"JavaMap", "JavaSet", "JavaCollection", "JavaList"}

\* a == b.  An adapter with __eq__ answers for itself, also when it is on
\* the right of a host value; host lists compare item by item, host sets
\* by membership, host ints and bools by number, and all else by being the
\* same value.  (No float is among the values the adapters of the model
\* meet.)
PyEq(a, b, cx) ==
    IF HasEq(a) \/ HasEq(b)
    THEN Adapter___eq__(IF HasEq(a) THEN a ELSE b, IF HasEq(a) THEN b ELSE a,
                        cx)
    ELSE IF a.kind = "list" /\ b.kind = "list"
    THEN IF Len(a.val) # Len(b.val) THEN Ok(PyBool(FALSE))
         ELSE AllEq(a.val, b.val, 1, cx)
    ELSE IF a.kind = "set" /\ b.kind = "set"
    THEN Ok(PyBool({a.val[i] : i \in 1..Len(a.val)}
                   = {b.val[i] : i \in 1..Len(b.val)}))
    ELSE IF IsInt(a) /\ IsInt(b)
    THEN Ok(PyBool(IntOf(a) = IntOf(b)))
    ELSE Ok(PyBool(a.kind = b.kind /\ a.val = b.val))

(***************************************************************************)
(* Registration.  add_java_converter and add_py_converter insert with      *)
(* bisect.insort: the position is the end of the run of converters that    *)
(* are not greater than the new one, found by bisection with __lt__.       *)
(***************************************************************************)
\* bisect.bisect_left: the position before the converters equal to x.
RECURSIVE bisect_left(_, _, _, _)
bisect_left(a, x, lo, hi) ==
    IF lo < hi
    THEN LET mid == (lo + hi) \div 2 IN
         IF Converter_lt(a[mid + 1], x)
         THEN bisect_left(a, x, mid + 1, hi)
         ELSE bisect_left(a, x, lo, mid)
    ELSE lo

RECURSIVE bisect_right(_, _, _, _)
bisect_right(a, x, lo, hi) ==
    IF lo < hi
    THEN LET mid == (lo + hi) \div 2 IN
         IF Converter_lt(x, a[mid + 1])
         THEN bisect_right(a, x, lo, mid)
         ELSE bisect_right(a, x, mid + 1, hi)
    ELSE lo

\* One turn of bisect_right's loop: the comparison, made by
\* Converter.__lt__, and the bound it moves.
bisect_right_step(a, x, lo, hi) ==
    LET mid == (lo + hi) \div 2 IN
    IF Converter_lt(x, a[mid + 1])
    THEN [lo |-> lo, hi |-> mid]
    ELSE [lo |-> mid + 1, hi |-> hi]

\* a[lo] = x: the element at lo is replaced.
InsertAt_replacing(a, lo, x) ==
    SubSeq(a, 1, lo) \o <<x>> \o SubSeq(a, lo + 2, Len(a))

\* a.insert(lo, x)
InsertAt(a, lo, x) == SubSeq(a, 1, lo) \o <<x>> \o SubSeq(a, lo + 1, Len(a))

insort(a, x) == InsertAt(a, bisect_right(a, x, 0, Len(a)), x)

\* Registration at the end of the list, whatever the priority.
append_converter(converters, converter) == Append(converters, converter)

\* add_java_converter(converter) / add_py_converter(converter)
add_converter(converters, converter) == insort(converters, converter)

\* list.remove(x): drop the first element equal to x.
RemoveFirst(a, x) ==
    IF \E i \in 1..Len(a) : a[i] = x
    THEN LET i == CHOOSE i \in 1..Len(a) :
                    a[i] = x /\ \A j \in 1..(i - 1) : a[j] # x
         IN SubSeq(a, 1, i - 1) \o SubSeq(a, i + 1, Len(a))
    ELSE a

\* for converter in stock: add it.
RECURSIVE AddAll(_, _, _)
AddAll(converters, stock, k) ==
    IF k > Len(stock) THEN converters
    ELSE AddAll(add_converter(converters, stock[k]), stock, k + 1)

\* The registries' sizes are bounded by bounding the caller's registrations.
MaxAdds == 2

Idle == [op |-> "none"]

\* _initialize_converters(): each stock converter is added to its registry,
\* with the registration of _convert.py.
_initialize_converters(cx) ==
    [cx EXCEPT !.java = AddAll(cx.java, _stock_java_converters, 1),
               !.py = AddAll(cx.py, _stock_py_converters(pandas, numpy), 1)]

\* What happened is written down as it happens.
Logged(cx, event) == [cx EXCEPT !.ran = Append(@, event)]

\* The callbacks of the model that raise an Exception when called.
Raising == {"boom"}

\* callback(): the callbacks of the model other than
\* _initialize_converters touch nothing the model keeps; one either
\* returns or raises.
callback(f, cx) ==
    IF f = "_initialize_converters"
    THEN _initialize_converters(Logged(cx, f))
    ELSE IF f \in Raising
    THEN [Logged(cx, f) EXCEPT !.exc = "Exception"]
    ELSE Logged(cx, f)

\* for callback in _startup_callbacks: callback()
\* Nothing catches what a callback raises: the loop ends there.
RECURSIVE RunCallbacks(_, _, _)
RunCallbacks(callbacks, k, cx) ==
    IF k > Len(callbacks) \/ cx.exc # "" THEN cx
    ELSE RunCallbacks(callbacks, k + 1, callback(callbacks[k], cx))

\* start_jvm() without its early return: the callbacks run on every call.
start_jvm_again(cx) == RunCallbacks(_startup_callbacks, 1, cx)

\* What start_jvm() leaves: nothing touched if the JVM is already running,
\* else the JVM started and what the startup callbacks do.
start_jvm(cx) ==
    IF jvm_started THEN cx
    ELSE RunCallbacks(_startup_callbacks, 1, Logged(cx, "startJVM"))

Registries ==
    [java |-> java_converters, py |-> py_converters, ran |-> ran,
     exc |-> ""]

\* when_jvm_starts(f) that only ever queues f.
when_jvm_starts_queueing(f, cx) ==
    [cx |-> cx, callbacks |-> Append(_startup_callbacks, f)]

\* when_jvm_starts(f): f() at once if the JVM is running, else f joins
\* _startup_callbacks.
when_jvm_starts(f, cx) ==
    IF jvm_started
    THEN [cx |-> callback(f, cx), callbacks |-> _startup_callbacks]
    ELSE [cx |-> cx, callbacks |-> Append(_startup_callbacks, f)]

\* when_jvm_stops(f)
when_jvm_stops(f) == Append(_shutdown_callbacks, f)

\* for callback in _shutdown_callbacks:
\*     try: callback()
\*     except Exception as e: print(...)
RECURSIVE RunShutdownCallbacks(_, _, _)
RunShutdownCallbacks(callbacks, k, cx) ==
    IF k > Len(callbacks) THEN cx
    ELSE RunShutdownCallbacks(callbacks, k + 1,
                              [callback(callbacks[k], cx) EXCEPT !.exc = ""])

\* shutdown_jvm() without the try around each callback: what the callback
\* raises ends the call.
shutdown_jvm_unguarded(cx) ==
    IF ~jvm_started THEN cx
    ELSE IF RunCallbacks(_shutdown_callbacks, 1, cx).exc # ""
    THEN RunCallbacks(_shutdown_callbacks, 1, cx)
    ELSE Logged(RunCallbacks(_shutdown_callbacks, 1, cx), "shutdownJVM")

\* shutdown_jvm(): nothing if the JVM is not running; else the shutdown
\* callbacks, then jpype.shutdownJVM().  No AWT thread runs in the model.
shutdown_jvm(cx) ==
    IF ~jvm_started THEN cx
    ELSE Logged(RunShutdownCallbacks(_shutdown_callbacks, 1, cx),
                "shutdownJVM")

(***************************************************************************)
(* The values, hints and converters the callers of the model pass.         *)
(***************************************************************************)
Two31 == Pos(<<2, 1, 4, 7, 4, 8, 3, 6, 4, 8>>)
MinusTwo31Minus1 == Neg(<<2, 1, 4, 7, 4, 8, 3, 6, 4, 9>>)
Two40 == Pos(<<1, 0, 9, 9, 5, 1, 1, 6, 2, 7, 7, 7, 6>>)
Two63 == Pos(<<9, 2, 2, 3, 3, 7, 2, 0, 3, 6, 8, 5, 4, 7, 7, 5, 8, 0, 8>>)
MinusTwo63Minus1 ==
    Neg(<<9, 2, 2, 3, 3, 7, 2, 0, 3, 6, 8, 5, 4, 7, 7, 5, 8, 0, 9>>)

HostInts ==
    {Pos(<<0>>), Pos(<<5>>), Neg(<<1>>), Pos(<<3, 0, 0>>),
     Byte_MIN_VALUE, Byte_MAX_VALUE, Neg(<<1, 2, 9>>), Pos(<<1, 2, 8>>),
     Short_MIN_VALUE, Short_MAX_VALUE, Neg(<<3, 2, 7, 6, 9>>),
     Pos(<<3, 2, 7, 6, 8>>),
     Integer_MIN_VALUE, Integer_MAX_VALUE, MinusTwo31Minus1, Two31, Two40,
     Long_MIN_VALUE, Long_MAX_VALUE, MinusTwo63Minus1, Two63}

HostFloats == {"5.0", "1e39", "inf", "-inf", "nan"}

Hi == PyStr(<<"H", "i">>)
AnObject == J("java.lang.Object", "Object@1")

\* Passed with every hints mapping of HintsTried.
HintedInputs ==
    {PyInt(i) : i \in HostInts} \cup {PyBool(TRUE), PyBool(FALSE), Hi}

\* Passed without hints.
PlainInputs ==
    {PyFloat(f) : f \in HostFloats} \cup
    {PyNone, PyObject, PyPath(<<"/", "t">>), PyDataFrame, AnObject,
     PyList(<<PyInt(Pos(<<1>>)), Hi>>),
     PyList(<<PyInt(Pos(<<1>>)), PyList(<<PyObject>>)>>),
     PyDict(<<<<Hi, PyInt(Two40)>>, <<PyNone, PyBool(TRUE)>>>>),
     PySet(<<PyInt(Pos(<<3>>)), PyInt(Pos(<<4>>))>>),
     PyDict(<<<<Hi, PyList(<<PyInt(Pos(<<1>>)), PyObject>>)>>>>),
     PyDict(<<<<Hi, Hi>>, <<PyObject, Hi>>>>),
     PySet(<<PyInt(Pos(<<3>>)), PyObject>>)}

HintsTried ==
    {NoHints} \cup {TypeHint(t) : t \in {"byte", "short", "int", "long",
                                         "bigint", "x"}}

\* The calls of to_java: <<obj, hints>>.
JavaCalls ==
    (HintedInputs \X HintsTried) \cup (PlainInputs \X {NoHints})

\* Passed to to_python by a caller that did not get them from to_java.
\* A table of a column of a string and a column of an object that no
\* converter but the fallback admits.
ATable ==
    J("org.scijava.table.DefaultGenericTable",
      <<<<J("java.lang.String", <<"a">>)>>, <<AnObject>>>>)

JavaInputs ==
    {AnObject, J("java.lang.Character", "c"), J("java.util.ArrayDeque", <<>>),
     J("JInt", Pos(<<7>>)), PyInt(Pos(<<5>>)),
     J("JArray", <<J("JInt", Pos(<<1>>)), J("JInt", Pos(<<2>>))>>),
     J("JArray", <<J("java.lang.String", <<"a">>), AnObject>>),
     J("JArray", <<>>), ATable}

\* The priorities callers register converters with: the ends of the scale,
\* a stock converter's, a non-integer one and the test's 100.
UserPriorities == {FIRST, LAST, Pri(NORMAL), PriHalf(NORMAL), Pri(100)}

\* Converters that answer their own name's string: A, of host strings, at
\* every priority; B, of host strings, Java objects and None, at the
\* priority the tests use.
UserJavaConverters ==
    {Converter(<<"isinstance str">>, <<"invader", <<"A">>>>, p, "A") :
        p \in UserPriorities}
    \cup {Converter(<<"str, Java or None">>, <<"invader", <<"B">>>>, Pri(100),
                   "B")}

bad_converter ==
    Converter(<<"isinstance str">>, <<"invader", <<"A">>>>, Pri(100), "A")

UserPyConverters ==
    {Converter(<<"jinstance", "java.lang.Object">>, <<"JavaIterable">>,
               PriHalf(NORMAL), "U")}

(***************************************************************************)
(* Operations.                                                             *)
(***************************************************************************)
Init ==
    /\ jvm_started = FALSE
    /\ _startup_callbacks = <<"_initialize_converters">>
    /\ java_converters = <<>>
    /\ py_converters = <<>>
    /\ pandas \in BOOLEAN
    /\ numpy = TRUE
    /\ last = Idle
    /\ nAdds = 0
    /\ nRemoved = 0
    /\ jobj = PyNone
    /\ adapter = PyNone
    /\ nWrites = 0
    /\ _shutdown_callbacks = <<>>
    /\ ran = <<>>
    /\ threads = <<>>

\* jpype.shutdownJVM() has been called: jpype starts no second JVM, and
\* no caller of the model asks for one.
Stopped == \E k \in 1..Len(ran) : ran[k] = "shutdownJVM"

\* What start_jvm() does to the state.
StartJvmEffect ==
    /\ ~Stopped
    /\ LET cx == start_jvm(Registries) IN
       /\ java_converters' = cx.java
       /\ py_converters' = cx.py
       /\ ran' = cx.ran
    /\ jvm_started' = TRUE
    /\ UNCHANGED <<_startup_callbacks, pandas, numpy, _shutdown_callbacks,
                   threads>>

\* start_jvm()
StartJvm ==
    /\ last.op = "none"
    /\ StartJvmEffect
    /\ UNCHANGED <<last, nAdds, nRemoved>>
    /\ UNCHANGED <<jobj, adapter, nWrites>>

\* to_java(obj, **hints): start_jvm(), then _convert with java_converters.
ToJava ==
    /\ last.op = "none"
    /\ StartJvmEffect
    /\ \E call \in JavaCalls :
         last' = [op |-> "to_java", obj |-> call[1], hints |-> call[2],
                  gentle |-> FALSE,
                  out |-> to_java(call[1], call[2], Registries'),
                  from |-> Idle]
    /\ UNCHANGED <<nAdds, nRemoved>>
    /\ UNCHANGED <<jobj, adapter, nWrites>>

\* to_python(data, gentle): start_jvm(), then _convert with py_converters.
ToPython ==
    /\ last.op = "none"
    /\ StartJvmEffect
    /\ \E data \in JavaInputs, gentle \in BOOLEAN :
         last' = [op |-> "to_python", obj |-> data, hints |-> NoHints,
                  gentle |-> gentle,
                  out |-> to_python(data, gentle, Registries'),
                  from |-> Idle]
    /\ UNCHANGED <<nAdds, nRemoved>>
    /\ UNCHANGED <<jobj, adapter, nWrites>>

\* to_java(to_java(obj))
ToJavaOfResult ==
    /\ last.op = "to_java"
    /\ last.from.op = "none"
    /\ last.hints = NoHints
    /\ last.out.st = "ok"
    /\ StartJvmEffect
    /\ last' = [op |-> "to_java", obj |-> last.out.val, hints |-> NoHints,
                gentle |-> FALSE,
                out |-> to_java(last.out.val, NoHints, Registries'),
                from |-> last]
    /\ UNCHANGED <<nAdds, nRemoved>>
    /\ UNCHANGED <<jobj, adapter, nWrites>>

\* to_python(to_java(obj, **hints))
ToPythonOfResult ==
    /\ last.op = "to_java"
    /\ last.from.op = "none"
    /\ last.out.st = "ok"
    /\ StartJvmEffect
    /\ last' = [op |-> "to_python", obj |-> last.out.val, hints |-> NoHints,
                gentle |-> FALSE,
                out |-> to_python(last.out.val, FALSE, Registries'),
                from |-> last]
    /\ UNCHANGED <<nAdds, nRemoved>>
    /\ UNCHANGED <<jobj, adapter, nWrites>>

\* add_java_converter(converter)
AddJavaConverter(converter) ==
    /\ last.op = "none"
    /\ nAdds < MaxAdds
    /\ java_converters' = add_converter(java_converters, converter)
    /\ nAdds' = nAdds + 1
    /\ UNCHANGED <<jvm_started, _startup_callbacks, py_converters, pandas,
                   numpy, last, nRemoved>>
    /\ UNCHANGED <<jobj, adapter, nWrites,
                   _shutdown_callbacks, ran, threads>>

\* add_py_converter(converter)
AddPyConverter(converter) ==
    /\ last.op = "none"
    /\ nAdds < MaxAdds
    /\ py_converters' = add_converter(py_converters, converter)
    /\ nAdds' = nAdds + 1
    /\ UNCHANGED <<jvm_started, _startup_callbacks, java_converters, pandas,
                   numpy, last, nRemoved>>
    /\ UNCHANGED <<jobj, adapter, nWrites,
                   _shutdown_callbacks, ran, threads>>

\* java_converters.remove(converter), as the tests do with a converter they
\* added.
RemoveJavaConverter(converter) ==
    /\ last.op = "none"
    /\ \E i \in 1..Len(java_converters) : java_converters[i] = converter
    /\ java_converters' = RemoveFirst(java_converters, converter)
    /\ nRemoved' = nRemoved + 1
    /\ UNCHANGED <<jvm_started, _startup_callbacks, py_converters, pandas,
                   numpy, last, nAdds>>
    /\ UNCHANGED <<jobj, adapter, nWrites,
                   _shutdown_callbacks, ran, threads>>

\* The caller is done with the result of the last call.
Forget ==
    /\ last.op # "none"
    /\ last' = Idle
    /\ UNCHANGED <<jvm_started, _startup_callbacks, java_converters,
                   py_converters, pandas, numpy, nAdds, nRemoved>>
    /\ UNCHANGED <<jobj, adapter, nWrites,
                   _shutdown_callbacks, ran, threads>>

Next ==
    \/ StartJvm
    \/ ToJava
    \/ ToPython
    \/ ToJavaOfResult
    \/ ToPythonOfResult
    \/ \E converter \in UserJavaConverters : AddJavaConverter(converter)
    \/ \E converter \in UserPyConverters : AddPyConverter(converter)
    \/ \E converter \in UserJavaConverters : RemoveJavaConverter(converter)
    \/ Forget

Spec == Init /\ [][Next]_vars

(***************************************************************************)
(* The adapters at work.  The runtime is started and the registries hold   *)
(* the stock converters; jobj is a Java collection or iterator, adapter    *)
(* what to_python made of it.  The caller calls the adapter's methods, and *)
(* Java code changes the collection behind its back.                       *)
(***************************************************************************)
\* No Java collection of the model grows beyond this many elements, and
\* none is changed more often than this.
MaxLen == 3
MaxWrites == 2

One == PyInt(Pos(<<1>>))
Zero == PyInt(Pos(<<0>>))
StrA == PyStr(<<"a">>)

\* The nestings of host dicts, lists and sets the caller converts.
HostStructures ==
    {PyDict(<<<<StrA, PyList(<<One, PyInt(Pos(<<2>>)),
                               PySet(<<PyInt(Pos(<<3>>)),
                                       PyInt(Pos(<<4>>))>>)>>)>>,
              <<PyStr(<<"b">>), PyStr(<<"x">>)>>>>),
     PyDict(<<<<PyStr(<<"k">>), PyNone>>, <<PyNone, StrA>>>>),
     PyDict(<<<<One, StrA>>>>),
     PyList(<<One, Zero>>),
     PyList(<<PyInt(Pos(<<5>>)), PyInt(Pos(<<7>>)), StrA>>),
     PyList(<<PyList(<<One>>), PyNone>>),
     PyList(<<>>),
     PySet(<<PyInt(Pos(<<3>>)), StrA>>)}

\* Primitive arrays as the tests build them: an int[] and a double[][].
JDouble(f) == J("JDouble", f)
IntArray == J("JArray", <<JInt(11), JInt(6), JInt(2)>>)
DoubleArray2d ==
    J("JArray", <<J("JArray", <<JDouble("1.2"), JDouble("3.4")>>),
                  J("JArray", <<JDouble("7.8"), JDouble("9.1")>>)>>)

\* The elements Java code writes into an array of each element type.
ElementsWritten == {JInt(4), JInt(100), JDouble("15.3")}

\* Java collections no to_java call of the model makes: a list and a deque
\* with an element only the fallback converter admits, and an iterator
\* over such elements.
JavaStructures ==
    {J("java.util.ArrayList", <<AnObject, J("java.lang.Integer", Pos(<<0>>))>>),
     J("java.util.ArrayDeque", <<J("java.lang.String", <<"a">>), AnObject>>),
     J("java.util.ArrayList$Itr",
       <<J("java.lang.String", <<"a">>), AnObject,
         J("java.lang.Integer", Pos(<<1>>))>>),
     J("java.util.ArrayList$Itr", <<>>),
     IntArray, DoubleArray2d}

\* The keys, values and items the caller passes to the adapter's methods.
KeysTried == {Zero, One, StrA}
ValuesTried == {Zero, PyList(<<One>>), PyObject}
ItemsTried == {One, StrA, PyObject}

\* The values the caller compares the adapter with.
Partners ==
    HostStructures \cup
    {PyObject, One, PyStr(<<"a", "b">>), PyList(<<One>>),
     PyList(<<StrA, PyStr(<<"b">>)>>), PySet(<<StrA, PyInt(Pos(<<3>>))>>),
     PyDict(<<<<One, PyStr(<<"b">>)>>>>)}

\* The elements Java code adds to the collection.
ElementsAdded == {AnObject}

\* An adapter that wraps a copy made when it was constructed.
Self_copy == adapter

\* The adapter holds a reference: what it wraps is the Java object as it
\* now is.
Self == [adapter EXCEPT !.val = jobj]

InitAdapters ==
    /\ jvm_started = TRUE
    /\ _startup_callbacks = <<"_initialize_converters">>
    /\ pandas = TRUE
    /\ numpy = TRUE
    /\ LET cx == RunCallbacks(_startup_callbacks, 1,
                              [java |-> <<>>, py |-> <<>>,
                               ran |-> <<"startJVM">>, exc |-> ""])
       IN
       /\ java_converters = cx.java
       /\ py_converters = cx.py
       /\ ran = cx.ran
    /\ _shutdown_callbacks = <<>>
    /\ threads = <<>>
    /\ jobj \in {to_java(s, NoHints, Registries).val : s \in HostStructures}
                \cup JavaStructures
    /\ adapter = IF is_jarray(jobj) THEN PyNone
                 ELSE to_python(jobj, FALSE, Registries).val
    /\ last = Idle
    /\ nAdds = 0
    /\ nRemoved = 0
    /\ nWrites = 0

\* What a read of the adapter leaves as it is.
Read(op, args, out) ==
    /\ last' = [op |-> op, args |-> args, out |-> out, before |-> jobj]
    /\ UNCHANGED <<jvm_started, _startup_callbacks, java_converters,
                   py_converters, pandas, numpy, nAdds, nRemoved, jobj,
                   adapter, nWrites,
                   _shutdown_callbacks, ran, threads>>

\* A call of the adapter that may change the Java object.
Write(op, args, r) ==
    /\ nWrites < MaxWrites
    /\ last' = [op |-> op, args |-> args, out |-> r.out, before |-> jobj]
    /\ jobj' = r.jobj
    /\ nWrites' = nWrites + 1
    /\ UNCHANGED <<jvm_started, _startup_callbacks, java_converters,
                   py_converters, pandas, numpy, nAdds, nRemoved, adapter,
                   _shutdown_callbacks, ran, threads>>

\* len(adapter)
Len_ ==
    /\ adapter.kind \in {"JavaCollection", "JavaList", "JavaSet", "JavaMap"}
    /\ Read("__len__", <<>>, JavaCollection___len__(Self, Registries))

\* item in adapter
Contains(item) ==
    /\ adapter.kind \in {"JavaCollection", "JavaList", "JavaSet"}
    /\ Read("__contains__", <<item>>,
            JavaCollection___contains__(Self, item, Registries))

\* list(adapter)
Iterate ==
    /\ adapter.kind \in {"JavaCollection", "JavaList", "JavaSet", "JavaMap"}
    /\ Read("__iter__", <<>>, AdapterItems(Self, Registries))

\* adapter.keys()
Keys ==
    /\ adapter.kind = "JavaMap"
    /\ Read("keys", <<>>, JavaMap_keys(Self, Registries))

\* adapter[key]
GetItem(key) ==
    \/ /\ adapter.kind = "JavaList"
       /\ Read("__getitem__", <<key>>,
               JavaList___getitem__(Self, key, Registries))
    \/ /\ adapter.kind = "JavaMap"
       /\ Read("__getitem__", <<key>>,
               JavaMap___getitem__(Self, key, Registries))

\* adapter[key] = value
SetItem(key, value) ==
    \/ /\ adapter.kind = "JavaList"
       /\ Write("__setitem__", <<key, value>>,
                JavaList___setitem__(Self, key, value, Registries))
    \/ /\ adapter.kind = "JavaMap"
       /\ Write("__setitem__", <<key, value>>,
                JavaMap___setitem__(Self, key, value, Registries))

\* adapter.insert(index, object)
Insert(index, object) ==
    /\ adapter.kind = "JavaList"
    /\ Write("insert", <<index, object>>,
             JavaList_insert(Self, index, object, Registries))

\* del adapter[key]
DelItem(key) ==
    \/ /\ adapter.kind = "JavaList"
       /\ Write("__delitem__", <<key>>,
                JavaList___delitem__(Self, key, Registries))
    \/ /\ adapter.kind = "JavaMap"
       /\ Write("__delitem__", <<key>>,
                JavaMap___delitem__(Self, key, Registries))

\* adapter.add(item)
Add(item) ==
    /\ adapter.kind = "JavaSet"
    /\ Len(jobj.val) < MaxLen
    /\ Write("add", <<item>>, JavaSet_add(Self, item, Registries))

\* adapter.discard(item)
Discard(item) ==
    /\ adapter.kind = "JavaSet"
    /\ Write("discard", <<item>>, JavaSet_discard(Self, item, Registries))

\* adapter == other
Eq(other) ==
    /\ adapter.kind \in {"JavaCollection", "JavaList", "JavaSet", "JavaMap"}
    /\ Read("__eq__", <<other>>, PyEq(Self, other, Registries))

\* next(adapter)
NextItem ==
    /\ adapter.kind = "JavaIterator"
    /\ LET r == JavaIterator___next__(Self, Registries) IN
       /\ last' = [op |-> "__next__", args |-> <<>>, out |-> r.out,
                   before |-> jobj]
       /\ jobj' = r.jobj
    /\ UNCHANGED <<jvm_started, _startup_callbacks, java_converters,
                   py_converters, pandas, numpy, nAdds, nRemoved, adapter,
                   nWrites,
                   _shutdown_callbacks, ran, threads>>

\* Java code adds an element to the list or deque, or clears it.
JavaAdd(element) ==
    /\ jobj.kind \in {"java.util.ArrayList", "java.util.ArrayDeque"}
    /\ Len(jobj.val) < MaxLen
    /\ Write("java add", <<element>>,
             [out |-> Ok(JBoolean(TRUE)),
              jobj |-> [jobj EXCEPT !.val = Append(jobj.val, element)]])

\* jarr[i] = element, or jarr[i][j] = element of a double[][].
JavaSetElement(i, j, element) ==
    /\ is_jarray(jobj)
    /\ i \in 1..Len(jobj.val)
    /\ IF is_jarray(jobj.val[i])
       THEN /\ j \in 1..Len(jobj.val[i].val)
            /\ element.kind = jobj.val[i].val[j].kind
            /\ Write("java set", <<element>>,
                     [out |-> Ok(PyNone),
                      jobj |-> [jobj EXCEPT !.val[i].val[j] = element]])
       ELSE /\ j = 1
            /\ element.kind = jobj.val[i].kind
            /\ Write("java set", <<element>>,
                     [out |-> Ok(PyNone),
                      jobj |-> [jobj EXCEPT !.val[i] = element]])

\* to_python(jarr) of the array the caller holds; the caller keeps the
\* first result.
ToPythonAgain ==
    /\ is_jarray(jobj)
    /\ last' = [op |-> "to_python", args |-> <<>>,
                out |-> to_python(jobj, FALSE, Registries), before |-> jobj]
    /\ adapter' = IF adapter = PyNone THEN last'.out.val ELSE adapter
    /\ UNCHANGED <<jvm_started, _startup_callbacks, java_converters,
                   py_converters, pandas, numpy, nAdds, nRemoved, jobj,
                   nWrites,
                   _shutdown_callbacks, ran, threads>>

NextAdapters ==
    \/ Len_
    \/ Iterate
    \/ Keys
    \/ NextItem
    \/ \E item \in ItemsTried : Contains(item)
    \/ \E key \in KeysTried : GetItem(key)
    \/ \E key \in KeysTried, value \in ValuesTried : SetItem(key, value)
    \/ \E index \in KeysTried, object \in ValuesTried : Insert(index, object)
    \/ \E key \in KeysTried : DelItem(key)
    \/ \E item \in ItemsTried : Add(item)
    \/ \E item \in ItemsTried : Discard(item)
    \/ \E other \in Partners : Eq(other)
    \/ \E element \in ElementsAdded : JavaAdd(element)
    \/ \E i \in 1..MaxLen, j \in 1..MaxLen, element \in ElementsWritten :
          JavaSetElement(i, j, element)
    \/ ToPythonAgain

SpecAdapters == InitAdapters /\ [][NextAdapters]_vars

(***************************************************************************)
(* The life of the JVM.  Callers register startup and shutdown callbacks,  *)
(* start the JVM (directly, or by converting something) and shut it down.  *)
(* Each callback is registered once.  The startup callbacks return; of the *)
(* shutdown callbacks, "boom" raises an Exception.                         *)
(***************************************************************************)
StartupCallbacks == {"f", "g"}
ShutdownCallbacks == {"h", "boom", "k"}

Events(log) == {log[k] : k \in 1..Len(log)}

NotYetRegistered(f) ==
    f \notin Events(_startup_callbacks) \cup Events(_shutdown_callbacks)
                \cup Events(ran)

\* The call just made, what it returned, and the state it was made in.
Called(op, args, out) ==
    [op |-> op, args |-> args, out |-> out,
     before |-> [jvm_started |-> jvm_started, cx |-> Registries,
                 startup |-> _startup_callbacks,
                 shutdown |-> _shutdown_callbacks]]

\* when_jvm_starts(f)
WhenJvmStarts(f) ==
    /\ NotYetRegistered(f)
    /\ java_converters' = when_jvm_starts(f, Registries).cx.java
    /\ py_converters' = when_jvm_starts(f, Registries).cx.py
    /\ ran' = when_jvm_starts(f, Registries).cx.ran
    /\ _startup_callbacks' = when_jvm_starts(f, Registries).callbacks
    /\ last' = Called("when_jvm_starts", <<f>>, PyNone)
    /\ UNCHANGED <<jvm_started, pandas, numpy, nAdds, nRemoved, jobj,
                   adapter, nWrites, _shutdown_callbacks, threads>>

\* when_jvm_stops(f)
WhenJvmStops(f) ==
    /\ NotYetRegistered(f)
    /\ _shutdown_callbacks' = when_jvm_stops(f)
    /\ last' = Called("when_jvm_stops", <<f>>, PyNone)
    /\ UNCHANGED <<jvm_started, _startup_callbacks, java_converters,
                   py_converters, pandas, numpy, nAdds, nRemoved, jobj,
                   adapter, nWrites, ran, threads>>

\* start_jvm()
StartJvmCalled ==
    /\ StartJvmEffect
    /\ last' = Called("start_jvm", <<>>, PyNone)
    /\ UNCHANGED <<nAdds, nRemoved, jobj, adapter, nWrites>>

\* to_java(obj)
ToJavaCalled(obj) ==
    /\ StartJvmEffect
    /\ last' = Called("to_java", <<obj>>, to_java(obj, NoHints, Registries'))
    /\ UNCHANGED <<nAdds, nRemoved, jobj, adapter, nWrites>>

\* to_python(data)
ToPythonCalled(data) ==
    /\ StartJvmEffect
    /\ last' = Called("to_python", <<data>>,
                      to_python(data, FALSE, Registries'))
    /\ UNCHANGED <<nAdds, nRemoved, jobj, adapter, nWrites>>

\* shutdown_jvm()
ShutdownJvm ==
    /\ ran' = shutdown_jvm(Registries).ran
    /\ jvm_started' = (jvm_started /\ "shutdownJVM" \notin Events(ran'))
    /\ last' = Called("shutdown_jvm", <<>>, PyNone)
    /\ UNCHANGED <<_startup_callbacks, java_converters, py_converters,
                   pandas, numpy, nAdds, nRemoved, jobj, adapter, nWrites,
                   _shutdown_callbacks, threads>>

NextJvm ==
    \/ \E f \in StartupCallbacks : WhenJvmStarts(f)
    \/ \E f \in ShutdownCallbacks : WhenJvmStops(f)
    \/ StartJvmCalled
    \/ \E obj \in {One, StrA} : ToJavaCalled(obj)
    \/ \E data \in {Hi, AnObject} : ToPythonCalled(data)
    \/ ShutdownJvm

SpecJvm == Init /\ [][NextJvm]_vars

(***************************************************************************)
(* Registration from several threads.  The JVM is started and the          *)
(* registries hold the stock converters.  Each thread calls                *)
(* add_java_converter once; no lock is taken, and another thread may run   *)
(* whenever Converter.__lt__ is called, that is, between any two turns of  *)
(* the search and between the search and the insertion.  Once the threads  *)
(* have returned, a caller converts a value.                               *)
(***************************************************************************)
Threads == {1, 2}

InitConcurrent ==
    /\ jvm_started = TRUE
    /\ _startup_callbacks = <<"_initialize_converters">>
    /\ pandas = TRUE
    /\ numpy = TRUE
    /\ LET cx == RunCallbacks(_startup_callbacks, 1,
                              [java |-> <<>>, py |-> <<>>,
                               ran |-> <<"startJVM">>, exc |-> ""])
       IN
       /\ java_converters = cx.java
       /\ py_converters = cx.py
       /\ ran = cx.ran
    /\ _shutdown_callbacks = <<>>
    /\ threads = [t \in Threads |->
                     [pc |-> "idle", x |-> PyNone, lo |-> 0, hi |-> 0]]
    /\ last = Idle
    /\ nAdds = 0
    /\ nRemoved = 0
    /\ jobj = PyNone
    /\ adapter = PyNone
    /\ nWrites = 0

\* What a step of a registering thread leaves as it is.
ThreadStep ==
    UNCHANGED <<jvm_started, _startup_callbacks, py_converters, pandas,
                numpy, last, nAdds, nRemoved, jobj, adapter, nWrites,
                _shutdown_callbacks, ran>>

\* Thread t calls add_java_converter(converter): insort reads the length
\* of the list.
Call_add_java_converter(t, converter) ==
    /\ threads[t].pc = "idle"
    /\ threads' = [threads EXCEPT ![t] =
                      [pc |-> "bisect", x |-> converter, lo |-> 0,
                       hi |-> Len(java_converters)]]
    /\ UNCHANGED java_converters
    /\ ThreadStep

\* Thread t makes one comparison of its search.
Compare(t) ==
    /\ threads[t].pc = "bisect"
    /\ threads[t].lo < threads[t].hi
    /\ LET r == bisect_right_step(java_converters, threads[t].x,
                                  threads[t].lo, threads[t].hi)
       IN threads' = [threads EXCEPT ![t].lo = r.lo, ![t].hi = r.hi]
    /\ UNCHANGED java_converters
    /\ ThreadStep

\* Thread t, its search over, inserts at the position found and returns.
InsertFound(t) ==
    /\ threads[t].pc = "bisect"
    /\ threads[t].lo >= threads[t].hi
    /\ java_converters' =
          InsertAt(java_converters, threads[t].lo, threads[t].x)
    /\ threads' = [threads EXCEPT ![t].pc = "done"]
    /\ ThreadStep

\* to_java(obj), after the threads have returned.
ToJavaAfterwards(obj) ==
    /\ \A t \in Threads : threads[t].pc = "done"
    /\ last.op = "none"
    /\ last' = [op |-> "to_java", obj |-> obj, hints |-> NoHints,
                gentle |-> FALSE,
                out |-> to_java(obj, NoHints, Registries),
                from |-> Idle]
    /\ UNCHANGED <<jvm_started, _startup_callbacks, java_converters,
                   py_converters, pandas, numpy, nAdds, nRemoved, jobj,
                   adapter, nWrites, _shutdown_callbacks, ran, threads>>

NextConcurrent ==
    \/ \E t \in Threads, converter \in UserJavaConverters :
          Call_add_java_converter(t, converter)
    \/ \E t \in Threads : Compare(t)
    \/ \E t \in Threads : InsertFound(t)
    \/ \E obj \in {Hi, One} : ToJavaAfterwards(obj)

SpecConcurrent == InitConcurrent /\ [][NextConcurrent]_vars

(***************************************************************************)
(* Properties.                                                             *)
(***************************************************************************)
Dispatched == last.op \in {"to_java", "to_python"}

\* The registry the last call scanned.
Scanned == IF last.op = "to_java" THEN java_converters ELSE py_converters

Members(converters) == {converters[i] : i \in 1..Len(converters)}

\* The converters of a registry that admit the last call's value and hints.
Admitting(converters) ==
    {c \in Members(converters) : Converter_supports(c, last.obj, last.hints)}

\* Every predicate of the registry answers for the last call's value.
PredicatesAnswer(converters) ==
    \A c \in Members(converters) : PredicateRaises(c.predicate, last.obj) = ""

\* What the caller of the last call gets when converter c is the one applied.
Applying(c) ==
    LET r == [Converter_convert(c, last.obj, last.hints, Registries)
                 EXCEPT !.rule = c] IN
    IF last.op = "to_python" /\ last.gentle /\ r.st = "TypeError"
    THEN [r EXCEPT !.st = "ok", !.val = last.obj]
    ELSE r

(***************************************************************************)
(* C1: a dispatch over a sorted registry whose predicates all answer       *)
(* applies one converter of the registry: one that admits the value and    *)
(* hints, with no converter of strictly higher priority admitting them,    *)
(* and what the call returns or raises is what that converter's action     *)
(* does.                                                                   *)
(***************************************************************************)
\* No converter is less than the one before it (priorities are totally
\* ordered, so this is sorted(converters) == converters).
Sorted(converters) ==
    \A i \in 1..(Len(converters) - 1) :
        ~Converter_lt(converters[i + 1], converters[i])

Fallbacks(converters) ==
    {i \in 1..Len(converters) : converters[i].predicate = <<"True">>}

StockConverters ==
    Members(_stock_java_converters)
        \cup Members(_stock_py_converters(pandas, numpy))

OneFallback(converters) ==
    LET fallbacks == Fallbacks(converters)
        stock == StockConverters
    IN
    /\ Cardinality(fallbacks) = 1
    /\ \A i \in fallbacks :
          /\ converters[i].converter = <<"_raise_type_exception">>
          /\ converters[i].priority = Pri(EXTREMELY_LOW - 1)
          /\ \A j \in 1..Len(converters) :
                (j # i /\ converters[j] \in stock) =>
                    PriorityLt(converters[i].priority, converters[j].priority)

\* _convert fell out of its loop.
Exhausted(out) == out = Ok(PyNone)

C3_RegistriesSorted == Sorted(java_converters) /\ Sorted(py_converters)

\* Callers have registered at FIRST and at a priority that is no integer,
\* and the stock converters are in.
C3_Witness ==
    /\ jvm_started
    /\ \E c \in Members(java_converters) : c.priority = FIRST
    /\ \E c \in Members(java_converters) : c.priority = PriHalf(NORMAL)
    /\ Len(java_converters) = Len(_stock_java_converters) + 2

(***************************************************************************)
(* C4: a registration puts the new converter after every converter of the  *)
(* registry whose priority is equal or lower and before every one whose    *)
(* priority is higher, leaving the others in their order; and of the       *)
(* converters of equal priority that admit a value, a dispatch applies the *)
(* one furthest down the list, which is the one registered last.           *)
(***************************************************************************)
AfterEquals(converters, c) ==
    SelectSeq(converters, LAMBDA x : ~PriorityLt(c.priority, x.priority))
        \o <<c>>
        \o SelectSeq(converters, LAMBDA x : PriorityLt(c.priority, x.priority))

RECURSIVE AllAfterEquals(_, _, _)
AllAfterEquals(converters, stock, k) ==
    IF k > Len(stock) THEN converters
    ELSE AllAfterEquals(AfterEquals(converters, stock[k]), stock, k + 1)

RegisteredAfterEquals ==
    /\ Len(java_converters') = Len(java_converters) + 1 =>
          \E c \in UserJavaConverters :
              java_converters' = AfterEquals(java_converters, c)
    /\ Len(py_converters') = Len(py_converters) + 1 =>
          \E c \in UserPyConverters :
              py_converters' = AfterEquals(py_converters, c)
    /\ (~jvm_started /\ jvm_started') =>
          /\ java_converters' =
                AllAfterEquals(java_converters, _stock_java_converters, 1)
          /\ py_converters' =
                AllAfterEquals(py_converters,
                               _stock_py_converters(pandas, numpy), 1)

LastOfEqualsApplied ==
    (Dispatched /\ PredicatesAnswer(Scanned)) =>
        \E k \in 1..Len(Scanned) :
            /\ Scanned[k] = last.out.rule
            /\ \A i \in (k + 1)..Len(Scanned) :
                  ~(/\ Scanned[i].priority = last.out.rule.priority
                    /\ Converter_supports(Scanned[i], last.obj, last.hints))

C4_LaterRegisteredWins ==
    [][RegisteredAfterEquals]_vars /\ []LastOfEqualsApplied

\* The caller's converter of priority NORMAL, registered once the stock
\* converters were in, is applied to a host string although the stock
\* converter of the same priority, further up the list, admits it too.
C4_Witness ==
    /\ last.op = "to_java"
    /\ last.obj = Hi
    /\ last.out.rule.name = "A"
    /\ last.out.rule.priority = JString.priority
    /\ \E i, j \in 1..Len(java_converters) :
          /\ i < j
          /\ java_converters[i] = JString
          /\ java_converters[j] = last.out.rule

(***************************************************************************)
(* C5: a to_java call on a registry that holds a caller's converter which  *)
(* admits the value at a priority strictly above every other admitting     *)
(* converter returns that converter's result, not the stock one's; and     *)
(* once every converter the callers added has been removed again, to_java  *)
(* of a host string is the stock str converter's java.lang.String.         *)
(***************************************************************************)
StrictlyHighest(r, converters) ==
    /\ Converter_supports(r, last.obj, last.hints)
    /\ \A c \in Admitting(converters) \ {r} :
          PriorityLt(c.priority, r.priority)

C5_OverrideAndRemoval ==
    last.op = "to_java" =>
        /\ \A r \in Members(java_converters) \cap UserJavaConverters :
              StrictlyHighest(r, java_converters) =>
                  /\ last.out.st = "ok"
                  /\ last.out.val = J("java.lang.String", <<r.name>>)
                  /\ last.out.val # J("java.lang.String", last.obj.val)
        /\ (nAdds = nRemoved /\ last.obj.kind = "str") =>
              /\ last.out.rule = JString
              /\ last.out.val = J("java.lang.String", last.obj.val)

\* A converter was registered and removed again, and the host string
\* converts as it does out of the box.
C5_Witness ==
    /\ nRemoved = 1
    /\ nAdds = 1
    /\ last.op = "to_java"
    /\ last.obj = Hi
    /\ last.out.rule = JString
    /\ last.out.val = J("java.lang.String", <<"H", "i">>)

(***************************************************************************)
(* C6: with the stock converters only and no hints, to_java of a host int  *)
(* that is no bool is an Integer within [-2^31, 2^31-1], a Long outside    *)
(* that but within [-2^63, 2^63-1], and otherwise a BigInteger of its      *)
(* decimal string; -2^31, 2^31-1, 2^31, -2^63, 2^63-1 and 2^63 fall on     *)
(* the stated side; and to_python of the result is the int again.          *)
(***************************************************************************)
UserConverters == UserJavaConverters \cup UserPyConverters

OnlyStock(converters) ==
    \A i \in 1..Len(converters) : converters[i] \notin UserConverters

Within(i, lo, hi) == IntLe(lo, i) /\ IntLe(i, hi)

UnhintedClass(i) ==
    IF Within(i, Integer_MIN_VALUE, Integer_MAX_VALUE) THEN "java.lang.Integer"
    ELSE IF Within(i, Long_MIN_VALUE, Long_MAX_VALUE) THEN "java.lang.Long"
    ELSE "java.math.BigInteger"

BoundaryClass ==
    {<<Integer_MIN_VALUE, "java.lang.Integer">>,
     <<Integer_MAX_VALUE, "java.lang.Integer">>,
     <<Two31, "java.lang.Long">>,
     <<Long_MIN_VALUE, "java.lang.Long">>,
     <<Long_MAX_VALUE, "java.lang.Long">>,
     <<Two63, "java.math.BigInteger">>}

\* call is a to_java call of a host int that is no bool, without hints.
UnhintedInt(call) ==
    call.op = "to_java" /\ call.obj.kind = "int" /\ call.hints = NoHints

C6_IntRoundTrip ==
    /\ (UnhintedInt(last) /\ OnlyStock(java_converters)) =>
          /\ last.out.st = "ok"
          /\ last.out.val = J(UnhintedClass(last.obj.val), last.obj.val)
          /\ \A b \in BoundaryClass :
                last.obj.val = b[1] => last.out.val.kind = b[2]
          /\ last.out.val.kind = "java.math.BigInteger" =>
                last.out.val.val = StrToInt(IntToStr(last.obj.val))
    /\ (/\ last.op = "to_python"
        /\ UnhintedInt(last.from)
        /\ OnlyStock(java_converters)
        /\ OnlyStock(py_converters)) =>
          /\ last.out.st = "ok"
          /\ last.out.val = last.from.obj

\* 2^63 went to a BigInteger and came back.
C6_Witness ==
    /\ last.op = "to_python"
    /\ UnhintedInt(last.from)
    /\ last.from.obj = PyInt(Two63)
    /\ last.obj.kind = "java.math.BigInteger"
    /\ last.out.val = PyInt(Two63)
    /\ OnlyStock(java_converters)
    /\ OnlyStock(py_converters)

(***************************************************************************)
(* C7: with the stock converters only and no hints, to_java of True and of *)
(* False is the bool converter's java.lang.Boolean, and to_python of that  *)
(* is the host bool it came from.                                          *)
(***************************************************************************)
UnhintedBool(call) ==
    call.op = "to_java" /\ call.obj.kind = "bool" /\ call.hints = NoHints

C7_BooleanBeforeInteger ==
    /\ (UnhintedBool(last) /\ OnlyStock(java_converters)) =>
          /\ last.out.rule = JBooleanConverter
          /\ last.out.st = "ok"
          /\ last.out.val = J("java.lang.Boolean", last.obj.val)
    /\ (/\ last.op = "to_python"
        /\ UnhintedBool(last.from)
        /\ OnlyStock(java_converters)
        /\ OnlyStock(py_converters)) =>
          /\ last.out.st = "ok"
          /\ last.out.val.kind = "bool"
          /\ last.out.val = last.from.obj

\* True went to a java.lang.Boolean and came back as True.
C7_Witness ==
    /\ last.op = "to_python"
    /\ UnhintedBool(last.from)
    /\ last.from.obj = PyBool(TRUE)
    /\ last.obj = J("java.lang.Boolean", TRUE)
    /\ last.out.val = PyBool(TRUE)
    /\ OnlyStock(java_converters)
    /\ OnlyStock(py_converters)

(***************************************************************************)
(* C8: with the stock converters, to_java of a host bool applies the bool  *)
(* converter and no int converter (Byte, Short, Integer, Long or           *)
(* BigInteger), whatever the hints.  Refuted: the Byte and Short           *)
(* converters sit at HIGH, above the bool converter's NORMAL + 1, and      *)
(* admit True and False under the hints byte and short.                    *)
(***************************************************************************)
IntConverters ==
    {JByteConverter, JShortConverter, JIntegerConverter, JLongConverter,
     JBigIntegerConverter}

C8_BoolNeverByIntConverter ==
    (/\ last.op = "to_java"
     /\ last.obj.kind = "bool"
     /\ OnlyStock(java_converters)) =>
        /\ last.out.rule = JBooleanConverter
        /\ last.out.rule \notin IntConverters

(***************************************************************************)
(* C9, as claimed: with the stock converters, to_java of a host int never  *)
(* ends at the fallback converter, whatever the hints.  Refuted by         *)
(* to_java(2^40, type='int') and to_java(300, type='byte').                *)
(***************************************************************************)
StockToJavaOfInt ==
    last.op = "to_java" /\ last.obj.kind = "int" /\ OnlyStock(java_converters)

C9_NeverFallbackAsClaimed == StockToJavaOfInt => last.out.rule # JOther

(***************************************************************************)
(* C9, amended: with the stock converters, to_java of a host int without a *)
(* type hint is converted by the Integer, Long or BigInteger converter and *)
(* never ends at the fallback; with a type hint it ends at the fallback,   *)
(* raising TypeError, exactly when the hint names no integer type or names *)
(* a fixed-width one whose range the int exceeds.                          *)
(***************************************************************************)
FixedWidthRange ==
    [byte |-> <<Byte_MIN_VALUE, Byte_MAX_VALUE>>,
     short |-> <<Short_MIN_VALUE, Short_MAX_VALUE>>,
     int |-> <<Integer_MIN_VALUE, Integer_MAX_VALUE>>,
     long |-> <<Long_MIN_VALUE, Long_MAX_VALUE>>]

\* The hint names an integer type that can hold i.
HintHolds(i, t) ==
    \/ t = "bigint"
    \/ /\ t \in DOMAIN FixedWidthRange
       /\ Within(i, FixedWidthRange[t][1], FixedWidthRange[t][2])

C9_FallbackOnlyUnderHint ==
    StockToJavaOfInt =>
        /\ ~HasType(last.hints) =>
              /\ last.out.st = "ok"
              /\ last.out.rule \in {JIntegerConverter, JLongConverter,
                                     JBigIntegerConverter}
        /\ HasType(last.hints) =>
              /\ last.out.rule = JOther <=>
                    ~HintHolds(last.obj.val, last.hints["type"])
              /\ last.out.rule = JOther => last.out.st = "TypeError"

\* 2^40 with type='int': too big for an Integer, refused by the Long and
\* BigInteger converters because of the hint, and so a TypeError.
C9_Witness ==
    /\ StockToJavaOfInt
    /\ last.obj = PyInt(Two40)
    /\ last.hints = TypeHint("int")
    /\ last.out.rule = JOther
    /\ last.out.st = "TypeError"

(***************************************************************************)
(* C10: with the stock converters, to_java of a host int that is no bool   *)
(* under a type hint byte, short, int, long or bigint whose type can hold  *)
(* it is a value of exactly that type, and to_python of it is the int      *)
(* again; without a hint neither a Byte nor a Short is produced.           *)
(***************************************************************************)
HintedClass ==
    [byte |-> "java.lang.Byte", short |-> "java.lang.Short",
     int |-> "java.lang.Integer", long |-> "java.lang.Long",
     bigint |-> "java.math.BigInteger"]

\* call is a to_java call of a host int under a hint whose type holds it.
HintedInt(call) ==
    /\ call.op = "to_java"
    /\ call.obj.kind = "int"
    /\ HasType(call.hints)
    /\ call.hints["type"] \in DOMAIN HintedClass
    /\ HintHolds(call.obj.val, call.hints["type"])

C10_HintSelectsType ==
    /\ (HintedInt(last) /\ OnlyStock(java_converters)) =>
          /\ last.out.st = "ok"
          /\ last.out.val =
                J(HintedClass[last.hints["type"]], last.obj.val)
    /\ (/\ last.op = "to_python"
        /\ HintedInt(last.from)
        /\ OnlyStock(java_converters)
        /\ OnlyStock(py_converters)) =>
          /\ last.out.st = "ok"
          /\ last.out.val = last.from.obj
    /\ (UnhintedInt(last) /\ OnlyStock(java_converters)) =>
          last.out.val.kind \notin {"java.lang.Byte", "java.lang.Short"}

\* 32767 under type='short' went to a java.lang.Short and came back.
C10_Witness ==
    /\ last.op = "to_python"
    /\ HintedInt(last.from)
    /\ last.from.obj = PyInt(Short_MAX_VALUE)
    /\ last.from.hints = TypeHint("short")
    /\ last.obj = J("java.lang.Short", Short_MAX_VALUE)
    /\ last.out.val = PyInt(Short_MAX_VALUE)
    /\ OnlyStock(java_converters)
    /\ OnlyStock(py_converters)

\* C11: to_java of a Java object or of None answers that very object, by the
\* identity or the None converter, whatever user converters of priority HIGH
\* or lower admit it; so to_java(to_java(x)) is to_java(x) wherever the
\* inner call succeeds.
C11_IdentityIdempotent ==
    (jvm_started /\ last.op = "to_java"
        /\ (isjava(last.obj) \/ last.obj = PyNone)
        /\ \A r \in Members(java_converters) \cap UserConverters :
              ~PriorityLt(Pri(HIGH), r.priority))
    => /\ last.out.st = "ok"
       /\ last.out.val = last.obj
       /\ last.out.rule \in {JIdentity, JNone}
       /\ last.from.op = "to_java" => last.out.val = last.from.out.val

C11_Witness ==
    /\ last.op = "to_java"
    /\ last.from.op = "to_java"
    /\ last.from.obj.kind = "list"
    /\ last.out = [st |-> "ok", val |-> last.from.out.val, rule |-> JIdentity]
    /\ \E r \in Members(java_converters) \cap UserConverters :
          Converter_supports(r, last.obj, NoHints)

\* The last call is to_python of a Java object that only the fallback
\* converter of the registry admits.
OnlyFallbackAdmits ==
    /\ jvm_started
    /\ last.op = "to_python"
    /\ isjava(last.obj)
    /\ PredicatesAnswer(py_converters)
    /\ Admitting(py_converters) = {POther}

GentleReturnsUnchanged ==
    OnlyFallbackAdmits =>
        IF last.gentle
        THEN last.out.st = "ok" /\ last.out.val = last.obj
        ELSE /\ last.out.st = "TypeError"
             /\ last.out = [_raise_type_exception(last.obj)
                               EXCEPT !.rule = POther]

\* A to_python call on a started runtime leaves both registries as they are.
ToPythonKeepsRegistries ==
    (jvm_started /\ last' # last /\ last'.op = "to_python")
        => UNCHANGED <<java_converters, py_converters>>

\* C12: to_python of a Java object that only the fallback admits returns the
\* object itself with gentle=True and raises the fallback's TypeError
\* without it; neither call changes a registry.
C12_GentleMode ==
    [][ToPythonKeepsRegistries]_vars /\ []GentleReturnsUnchanged

C12_Witness ==
    /\ OnlyFallbackAdmits
    /\ last.gentle
    /\ last.obj = AnObject
    /\ last.out.val = AnObject
    /\ Len(java_converters) > 0

\* The keys, values and items of a host dict, set or list, at any depth.
RECURSIVE Elements(_)
Elements(obj) ==
    CASE obj.kind = "dict" ->
            UNION {{obj.val[i][1], obj.val[i][2]}
                   \cup Elements(obj.val[i][1]) \cup Elements(obj.val[i][2]) :
                   i \in 1..Len(obj.val)}
      [] obj.kind \in {"set", "list"} ->
            UNION {{obj.val[i]} \cup Elements(obj.val[i]) :
                   i \in 1..Len(obj.val)}
      [] OTHER -> {}

\* The elements of the last call's value that only the fallback converter
\* of java_converters admits.
Unconvertible ==
    {e \in Elements(last.obj) :
        {c \in Members(java_converters) :
            Converter_supports(c, e, NoHints)} = {JOther}}

\* C13: to_java of a host dict, set or list with, at any depth, a key, value
\* or item that only the fallback admits raises the TypeError that to_java
\* of that element raises, and returns no collection.
C13_CompositeAllOrNothing ==
    (jvm_started /\ last.op = "to_java"
        /\ last.obj.kind \in {"dict", "set", "list"}
        /\ Unconvertible # {})
    => /\ last.out.st = "TypeError"
       /\ \E e \in Unconvertible :
             last.out.val = to_java(e, NoHints, Registries).val

C13_Witness ==
    /\ jvm_started
    /\ last.op = "to_java"
    /\ last.obj.kind = "dict"
    /\ \E i \in 1..Len(last.obj.val) :
          /\ last.obj.val[i][2].kind = "list"
          /\ PyObject \in Elements(last.obj.val[i][2])
    /\ Unconvertible = {PyObject}
    /\ last.out.st = "TypeError"

\* C14 as the specification states it, for the Table converter: when
\* _table_to_pandas raises on the table of a to_python call without gentle,
\* the call raises.
C14_TableErrorsPropagate ==
    (jvm_started /\ last.op = "to_python" /\ ~last.gentle
        /\ last.out.rule = PTable
        /\ _table_to_pandas(last.obj, Registries).st # "ok")
    => last.out.st # "ok"

\* The last call compared the adapter to_python made of to_java(s), not
\* changed since, with s, a nesting of host dicts, lists and sets.
RoundTripCompared ==
    /\ last.op = "__eq__"
    /\ nWrites = 0
    /\ last.args[1] \in HostStructures
    /\ to_java(last.args[1], NoHints, Registries).val = jobj

\* C15: to_python(to_java(s)) == s for a nesting s of host dicts, lists and
\* sets over strings, ints and None: a dict comes back as a JavaMap over a
\* LinkedHashMap, a set as a JavaSet over a LinkedHashSet, a list as a
\* JavaList over an ArrayList, and the comparison answers True.
C15_CompositeRoundTrip ==
    RoundTripCompared =>
        /\ last.out.st = "ok"
        /\ last.out.val = PyBool(TRUE)
        /\ <<last.args[1].kind, jobj.kind, adapter.kind>> \in
              {<<"dict", "java.util.LinkedHashMap", "JavaMap">>,
               <<"set", "java.util.LinkedHashSet", "JavaSet">>,
               <<"list", "java.util.ArrayList", "JavaList">>}

C15_Witness ==
    /\ RoundTripCompared
    /\ last.args[1].kind = "dict"
    /\ \E i \in 1..Len(last.args[1].val) :
          /\ last.args[1].val[i][2].kind = "list"
          /\ \E k \in 1..Len(last.args[1].val[i][2].val) :
                last.args[1].val[i][2].val[k].kind = "set"
    /\ last.out.val = PyBool(TRUE)

\* The last call was adapter[i] = v on a JavaList, i an index of the list
\* and v a value to_java converts.
SetInBounds ==
    /\ last.op = "__setitem__"
    /\ adapter.kind = "JavaList"
    /\ InBounds(last.before, last.args[1])
    /\ to_java(last.args[2], NoHints, Registries).st = "ok"

\* adapter[i] == v, read now.
ReadsBack(i, v) ==
    LET got == JavaList___getitem__(Self, i, Registries) IN
    /\ got.st = "ok"
    /\ PyEq(got.val, v, Registries) = Ok(PyBool(TRUE))

C17_DelItemByIndex ==
    (/\ last.op = "__delitem__"
     /\ adapter.kind = "JavaList"
     /\ InBounds(last.before, last.args[1]))
    => jobj.val = Without(last.before.val, IntValue(last.args[1].val) + 1)

\* The Java collection's elements, of a map its keys.
ElementsNow == [i \in 1..Len(jobj.val) |->
                   IF adapter.kind = "JavaMap" THEN jobj.val[i][1]
                   ELSE jobj.val[i]]

\* to_java of the n-th argument of the last call.
JArg(n) == to_java(last.args[n], NoHints, Registries)

\* What the last read through the adapter answered is what the Java
\* collection now holds.
ReadReflects ==
    /\ last.op = "__len__"
          => last.out.val = PyInt(Pos(Digits(Len(jobj.val))))
    /\ (last.op = "__contains__" /\ JArg(1).st = "ok")
          => last.out.val = PyBool(\E i \in 1..Len(jobj.val) :
                                       jobj.val[i] = JArg(1).val)
    /\ (last.op = "__iter__" /\ last.out.st = "ok")
          => /\ Len(last.out.val) = Len(jobj.val)
             /\ \A i \in 1..Len(jobj.val) :
                   last.out.val[i]
                      = to_python(ElementsNow[i], TRUE, Registries).val
    /\ last.op = "keys"
          => /\ last.out.val.kind = "JavaSet"
             /\ last.out.val.val.val = ElementsNow
    /\ (last.op = "__getitem__" /\ adapter.kind = "JavaList"
           /\ InBounds(jobj, last.args[1]))
          => last.out.val
                = to_python(jobj.val[IntValue(last.args[1].val) + 1], TRUE,
                            Registries).val
    /\ (last.op = "__getitem__" /\ adapter.kind = "JavaMap"
           /\ JArg(1).st = "ok")
          => last.out.val
                = to_python(Map_get(jobj, JArg(1).val), TRUE, Registries).val

\* What the last write through the adapter did is in the Java collection,
\* and nothing else of it has changed.
WriteObservable ==
    /\ (last.op = "__setitem__" /\ adapter.kind = "JavaList"
           /\ InBounds(last.before, last.args[1]) /\ JArg(2).st = "ok")
          => jobj.val = [last.before.val
                            EXCEPT ![IntValue(last.args[1].val) + 1]
                                      = JArg(2).val]
    /\ (last.op = "__setitem__" /\ adapter.kind = "JavaMap"
           /\ JArg(1).st = "ok" /\ JArg(2).st = "ok")
          => jobj.val = MapPut(last.before.val, JArg(1).val, JArg(2).val)
    /\ (last.op = "__delitem__" /\ adapter.kind = "JavaMap"
           /\ JArg(1).st = "ok")
          => jobj.val = SelectSeq(last.before.val,
                                  LAMBDA pair : pair[1] # JArg(1).val)
    /\ (last.op = "add" /\ JArg(1).st = "ok")
          => jobj.val = SetAdd(last.before.val, JArg(1).val)
    /\ (last.op = "discard" /\ JArg(1).st = "ok")
          => jobj.val = SelectSeq(last.before.val,
                                  LAMBDA e : e # JArg(1).val)

\* A call through the adapter starts from the Java collection as the call
\* before it, through the adapter or from Java code, left it.
StartsFromCurrent == last.op # "none" => last'.before = jobj

C19_EqualityNeverRaises ==
    last.op = "__eq__" =>
        /\ last.out.st = "ok"
        /\ last.out.val \in {PyBool(TRUE), PyBool(FALSE)}

\* The adapter is a JavaIterator; jobj.val holds the elements the Java
\* iterator has still to return.
OverIterator == adapter.kind = "JavaIterator"

\* A call of next(adapter): with elements remaining it returns the first,
\* converted with gentle (unchanged when to_python without gentle raises
\* TypeError on it), and the Java iterator moves past that element alone;
\* with none remaining it raises StopIteration and the iterator stays spent.
NextReturnsHead ==
    (OverIterator /\ last'.op = "__next__") =>
        /\ last'.before = jobj
        /\ IF jobj.val # <<>>
           THEN /\ last'.out.st = "ok"
                /\ last'.out.val
                      = to_python(Head(jobj.val), TRUE, Registries).val
                /\ to_python(Head(jobj.val), FALSE, Registries).st
                      = "TypeError" => last'.out.val = Head(jobj.val)
                /\ jobj'.val = Tail(jobj.val)
           ELSE /\ last'.out.st = "StopIteration"
                /\ jobj' = jobj

\* What remains is the end of what the iterator had at the start, and a
\* call of next ends with a value or with StopIteration.
RemainingIsSuffix ==
    OverIterator =>
        /\ Len(jobj.val) <= Len(adapter.val.val)
        /\ jobj.val = SubSeq(adapter.val.val,
                             Len(adapter.val.val) - Len(jobj.val) + 1,
                             Len(adapter.val.val))
        /\ last.op = "__next__" => last.out.st \in {"ok", "StopIteration"}

\* C20: calling next on a JavaIterator over n remaining elements returns
\* them once each in the Java iterator's order, each converted with gentle,
\* and the call after the last one, and every later call, raises
\* StopIteration and no Java exception.
C20_IteratorProtocol == [][NextReturnsHead]_vars /\ []RemainingIsSuffix

\* The iterator over "a", an Object and 1 is spent, and the call after
\* that has raised StopIteration.
C20_Witness ==
    /\ OverIterator
    /\ Len(adapter.val.val) = 3
    /\ AnObject \in {adapter.val.val[i] : i \in 1..3}
    /\ jobj.val = <<>>
    /\ last.op = "__next__"
    /\ last.before.val = <<>>
    /\ last.out.st = "StopIteration"

\* The adapter class the specification gives a Java object: the List, Map
\* or Set adapter for a List, Map or Set, the Collection adapter for any
\* other Collection.
AdapterStated(obj) ==
    CASE jinstance(obj, "java.util.List") -> "JavaList"
      [] jinstance(obj, "java.util.Map") -> "JavaMap"
      [] jinstance(obj, "java.util.Set") -> "JavaSet"
      [] jinstance(obj, "java.util.Collection") -> "JavaCollection"
      [] OTHER -> "none"

\* C21 as the specification states it: with the stock converters alone,
\* to_python of a Java List, Map or Set (no table) answers the JavaList,
\* JavaMap or JavaSet, and to_python of any other Java Collection answers
\* the JavaCollection, not the JavaIterable.
C21_MostSpecificAdapter ==
    (/\ jvm_started
     /\ last.op = "to_python"
     /\ OnlyStock(py_converters)
     /\ ~_is_table(last.obj)
     /\ AdapterStated(last.obj) # "none")
    => /\ last.out.st = "ok"
       /\ last.out.val.kind = AdapterStated(last.obj)

\* The host type the specification gives the value of a boxed Java class.
HostKindStated(cls) ==
    CASE cls = "java.lang.Boolean" -> "bool"
      [] cls \in {"java.lang.Byte", "java.lang.Short", "java.lang.Integer",
                  "java.lang.Long", "java.math.BigInteger"} -> "int"
      [] cls \in {"java.lang.Float", "java.lang.Double",
                  "java.math.BigDecimal"} -> "float"
      [] cls \in {"java.lang.String", "java.lang.Character"} -> "str"
      [] OTHER -> "none"

\* The host value of that type that holds what the boxed object holds.
HostValueStated(obj) ==
    [kind |-> HostKindStated(obj.kind),
     val |-> IF obj.kind = "java.lang.Character" THEN <<obj.val>>
             ELSE obj.val]

\* C22 as the specification states it: with the stock converters alone,
\* to_python of a boxed Boolean, Byte, Short, Integer, Long, BigInteger,
\* Float, Double, BigDecimal, String or Character answers the host bool,
\* int, float or str holding its value.
C22_BoxedValueExtracted ==
    (/\ jvm_started
     /\ last.op = "to_python"
     /\ OnlyStock(py_converters)
     /\ HostKindStated(last.obj.kind) # "none")
    => /\ last.out.st = "ok"
       /\ last.out.val = HostValueStated(last.obj)

\* x == y of two host floats: a NaN equals nothing, itself included.
FloatEq(x, y) == x = y /\ ~FloatIsNan(x)

SpecialFloat(obj) ==
    /\ obj.kind = "float"
    /\ FloatIsInf(obj.val) \/ FloatIsNan(obj.val)

\* The last call was to_java, without hints, of an infinity or a NaN.
ToJavaOfSpecial(call) ==
    /\ call.op = "to_java"
    /\ call.hints = NoHints
    /\ SpecialFloat(call.obj)

\* C23: without hints, to_java of inf, -inf and nan is made by the Float
\* converter, though none of them is within -Float.MAX_VALUE and
\* Float.MAX_VALUE, and with the stock converters to_python of the
\* java.lang.Float is inf, -inf and a NaN again, the NaN unequal to itself.
C23_FloatSpecials ==
    /\ (jvm_started /\ ToJavaOfSpecial(last))
          => /\ ~WithinFloat(last.obj.val)
             /\ last.out.st = "ok"
             /\ last.out.rule = JFloatConverter
             /\ last.out.val.kind = "java.lang.Float"
    /\ (/\ jvm_started
        /\ last.op = "to_python"
        /\ ToJavaOfSpecial(last.from)
        /\ OnlyStock(py_converters))
          => /\ last.out.st = "ok"
             /\ last.out.val.kind = "float"
             /\ last.out.val.val = last.from.obj.val
             /\ FloatIsNan(last.from.obj.val)
                   => ~FloatEq(last.out.val.val, last.out.val.val)
             /\ FloatIsInf(last.from.obj.val)
                   => FloatEq(last.out.val.val, last.from.obj.val)

C23_Witness ==
    /\ jvm_started
    /\ last.op = "to_python"
    /\ ToJavaOfSpecial(last.from)
    /\ OnlyStock(py_converters)
    /\ last.from.out.rule = JFloatConverter
    /\ last.out.val = PyFloat("nan")

\* The values a Java array now holds, nested as the array is.
RECURSIVE ValuesNow(_)
ValuesNow(jarr) ==
    IF ~is_jarray(jarr) THEN jarr.val
    ELSE [i \in 1..Len(jarr.val) |-> ValuesNow(jarr.val[i])]

\* to_python(jarr) has just answered for the array the caller holds.
ArrayConverted == is_jarray(jobj) /\ last.op = "to_python"

\* What a conversion of the array answers is the array's contents at that
\* call, with the shape and element type of the first conversion's result.
SnapshotIsCurrent ==
    /\ (is_jarray(jobj) /\ adapter # PyNone /\ nWrites = 0)
          => adapter.val = ValuesNow(jobj)
    /\ ArrayConverted =>
          /\ last.out.st = "ok"
          /\ last.out.val.kind = "ndarray"
          /\ last.out.val.val = ValuesNow(jobj)
          /\ last.out.val.shape = adapter.shape
          /\ last.out.val.dtype = adapter.dtype

\* A result the caller holds stays as it is when Java code writes into the
\* array.
ResultKept == (is_jarray(jobj) /\ adapter # PyNone) => adapter' = adapter

\* C24: every to_python(jarr) of a primitive array answers the array's
\* contents as they are at that call: after convert, mutate, convert again,
\* the second result holds the mutated contents with the shape and dtype
\* of the first, and the first result is as it was.
C24_ArraySnapshot == [][ResultKept]_vars /\ []SnapshotIsCurrent

\* The double[][] is converted again after two of its elements were
\* written.
C24_Witness ==
    /\ ArrayConverted
    /\ nWrites = 2
    /\ adapter # PyNone
    /\ last.out.val.shape = <<2, 2>>
    /\ last.out.val.dtype = "float64"
    /\ last.out.val.val = ValuesNow(jobj)
    /\ \E i \in 1..2 : last.out.val.val[i] # adapter.val[i]
    /\ adapter.val = <<<<"1.2", "3.4">>, <<"7.8", "9.1">>>>

\* The last call was adapter.insert(i, v) on a JavaList.
Inserted == last.op = "insert" /\ adapter.kind = "JavaList"

\* C27: JavaList.insert(i, v) with 0 <= i < n and v convertible puts
\* to_java(v) in the place of the element at i, which it returns, and moves
\* no element; and no insert call, whatever its arguments, changes the
\* length of the Java list.
C27_InsertOverwrites ==
    Inserted =>
        /\ Len(jobj.val) = Len(last.before.val)
        /\ (InBounds(last.before, last.args[1]) /\ JArg(2).st = "ok")
              => /\ last.out.st = "ok"
                 /\ jobj.val = [last.before.val
                                   EXCEPT ![IntValue(last.args[1].val) + 1]
                                             = JArg(2).val]
        /\ ~(InBounds(last.before, last.args[1]) /\ JArg(2).st = "ok")
              => /\ last.out.st # "ok"
                 /\ jobj = last.before

\* insert(0, [1]) on a list of three elements: the first is replaced.
C27_Witness ==
    /\ Inserted
    /\ Len(last.before.val) = 3
    /\ last.args = <<Zero, PyList(<<One>>)>>
    /\ last.out.st = "ok"
    /\ Len(jobj.val) = 3
    /\ jobj.val[1] = JArg(2).val
    /\ jobj.val[1] # last.before.val[1]
    /\ jobj.val[2] = last.before.val[2]

\* The last call is to_python with gentle=True of an array that the
\* array -> list converter takes, one element of which to_python cannot
\* convert.
GentleOnArrayOfUnconvertible ==
    /\ jvm_started
    /\ last.op = "to_python"
    /\ last.gentle
    /\ is_jarray(last.obj)
    /\ last.out.rule = PArray
    /\ \E i \in 1..Len(last.obj.val) :
          to_python(last.obj.val[i], FALSE, Registries).st = "TypeError"

\* The last call is to_python with gentle=True of an object the converter
\* selected makes an adapter of, whose constructor refuses it.
GentleOnRefusedAdapter ==
    /\ jvm_started
    /\ last.op = "to_python"
    /\ last.gentle
    /\ last.out.rule.converter = <<"JavaIterable">>
    /\ ~jinstance(last.obj, "java.lang.Iterable")

\* C29: with gentle=True, to_python returns the object it was given
\* whenever the dispatch ends in a TypeError: raised by the fallback
\* converter, by to_python of an element inside the array -> list
\* converter (the array comes back, no partly converted list), or by the
\* constructor of an adapter.
C29_GentleCoversActionErrors ==
    ((OnlyFallbackAdmits /\ last.gentle)
        \/ GentleOnArrayOfUnconvertible \/ GentleOnRefusedAdapter)
    => /\ last.out.st = "ok"
       /\ last.out.val = last.obj

C29_Witness ==
    /\ GentleOnArrayOfUnconvertible
    /\ to_python(last.obj.val[1], FALSE, Registries).st = "ok"
    /\ last.out.st = "ok"
    /\ last.out.val = last.obj
    /\ is_jarray(last.out.val)

\* C30 as the specification states it: on a Java array, empty ones
\* included, every predicate of the registry answers without raising, and
\* to_python of the array ends with a host list or an ndarray.
C30_EmptyArrayConverts ==
    (jvm_started /\ last.op = "to_python" /\ is_jarray(last.obj)
        /\ last.obj.val = <<>>)
    => /\ \A i \in 1..Len(py_converters) :
             PredicateRaises(py_converters[i].predicate, last.obj) = ""
       /\ last.out.st = "ok"
       /\ last.out.val.kind \in {"list", "ndarray"}

\* The computation ran the events of more, in order, and nothing else.
RanMore(more) == ran = last.before.cx.ran \o more

StartingCall == last.op \in {"start_jvm", "to_java", "to_python"}

C26_ShutdownCallbacks ==
    last.op = "shutdown_jvm"
    => /\ _shutdown_callbacks = last.before.shutdown
       /\ ~jvm_started
       /\ IF last.before.jvm_started
          THEN RanMore(last.before.shutdown \o <<"shutdownJVM">>)
          ELSE Registries = last.before.cx

\* The JVM was shut down with three callbacks registered, the second of
\* which raises.
C26_Witness ==
    /\ last.op = "shutdown_jvm"
    /\ last.before.jvm_started
    /\ last.before.shutdown = <<"h", "boom", "k">>
    /\ ~jvm_started

\* The threads whose add_java_converter has returned.
Returned == {t \in Threads : threads[t].pc = "done"}

Occurrences(converters, c) ==
    Cardinality({i \in 1..Len(converters) : converters[i] = c})

\* The registry as the start of the JVM left it.
RegistryAtStart == _initialize_converters(
                       [java |-> <<>>, py |-> <<>>, ran |-> <<>>,
                        exc |-> ""]).java

\* C28: whatever the interleaving of the threads' registrations, the
\* registry holds each stock converter as often as before and each
\* converter a thread has registered once per registration that returned,
\* and nothing else: no rule is lost or duplicated.  (That an interleaving
\* leaves the registry unsorted, and a later dispatch then applies a
\* lower-priority rule ahead of a higher one, is C28_Witness.)
C28_NoRuleLostOrDuplicated ==
    /\ Len(java_converters) = Len(RegistryAtStart) + Cardinality(Returned)
    /\ \A c \in Members(RegistryAtStart) \cup UserJavaConverters :
          Occurrences(java_converters, c)
            = Occurrences(RegistryAtStart, c)
                + Cardinality({t \in Returned : threads[t].x = c})

\* Both registrations have returned, the second between the first one's
\* search and its insertion; the registry is not sorted, and the dispatch
\* of a host string applied an admitting converter of lower priority than
\* another admitting converter of the registry.
C28_Witness ==
    /\ Returned = Threads
    /\ ~Sorted(java_converters)
    /\ last.op = "to_java"
    /\ last.obj = Hi
    /\ last.out.rule \in Admitting(java_converters)
    /\ \E c \in Admitting(java_converters) :
          PriorityLt(last.out.rule.priority, c.priority)

====
